---- MODULE Spec2Model ----
(***************************************************************************)
(* A model of the NodeRAG build core: the error-caching decorators         *)
(* (logging/error.py), the rate-limited API client (LLM/LLM_route.py),     *)
(* the Relationship unit (build/component/relationship.py), the graph      *)
(* construction stage (build/pipeline/graph_pipeline.py), the text         *)
(* decomposition stage (build/pipeline/text_pipeline.py), the Neo4j store  *)
(* (storage/neo4j_storage.py) and the search over it                       *)
(* (neo4j_native_search.py).                                               *)
(*                                                                         *)
(* Python strings are sequences of one-character strings, so that split,   *)
(* strip, join, lower, len and the substring test are computed as Python   *)
(* computes them.                                                          *)
(***************************************************************************)
EXTENDS Integers, Sequences, FiniteSets, TLC

\* ------------------------------------------------------------------------
\* Python strings and values
\* ------------------------------------------------------------------------

UpperChars == <<"A","B","C","D","E","F","G","H","I","J","K","L","M",
                "N","O","P","Q","R","S","T","U","V","W","X","Y","Z">>

LowerChars == <<"a","b","c","d","e","f","g","h","i","j","k","l","m",
                "n","o","p","q","r","s","t","u","v","w","x","y","z">>

\* str.lower() on one character
LowerChar(c) ==
    IF \E i \in 1..Len(UpperChars) : UpperChars[i] = c
    THEN LowerChars[CHOOSE i \in 1..Len(UpperChars) : UpperChars[i] = c]
    ELSE c

\* str.lower()
Lower(s) == [i \in 1..Len(s) |-> LowerChar(s[i])]

\* `sub in s` for strings
Contains(s, sub) ==
    \E i \in 0..(Len(s) - Len(sub)) : SubSeq(s, i + 1, i + Len(sub)) = sub

\* c * n
Rep(c, n) == [i \in 1..n |-> c]

RECURSIVE JoinWith(_, _)
\* sep.join(parts)
JoinWith(sep, parts) ==
    IF Len(parts) = 0 THEN <<>>
    ELSE IF Len(parts) = 1 THEN parts[1]
    ELSE parts[1] \o sep \o JoinWith(sep, Tail(parts))

RECURSIVE SplitOn(_, _)
\* s.split(c): always at least one field
SplitOn(s, c) ==
    IF \E i \in 1..Len(s) : s[i] = c
    THEN LET k == CHOOSE i \in 1..Len(s) :
                      s[i] = c /\ \A j \in 1..(i - 1) : s[j] # c
         IN <<SubSeq(s, 1, k - 1)>> \o SplitOn(SubSeq(s, k + 1, Len(s)), c)
    ELSE <<s>>

RECURSIVE Strip(_)
\* s.strip(): leading and trailing blanks removed
Strip(s) ==
    IF Len(s) > 0 /\ s[1] = " " THEN Strip(Tail(s))
    ELSE IF Len(s) > 0 /\ s[Len(s)] = " " THEN Strip(SubSeq(s, 1, Len(s) - 1))
    ELSE s

\* A Python value as the code tests it: a str, None, or another object whose
\* str() is s.
PyStr(s) == [t |-> "str", s |-> s]
PyNone == [t |-> "none", s |-> <<>>]
PyInt(s) == [t |-> "int", s |-> s]

\* ------------------------------------------------------------------------
\* logging/error.py: the failure rule and the two decorators
\* ------------------------------------------------------------------------

ShortLen == 100

ErrorSignals ==
    << <<"'","e","r","r","o","r","'",":">>,
       <<"e","r","r","o","r">>,
       <<"e","x","c","e","p","t","i","o","n">>,
       <<"f","a","i","l","e","d">>,
       <<"a","u","t","h","e","n","t","i","c","a","t","i","o","n">>,
       <<"r","a","t","e"," ","l","i","m","i","t">>,
       <<"a","p","i"," ","k","e","y">>,
       <<"u","n","a","u","t","h","o","r","i","z","e","d">>,
       <<"f","o","r","b","i","d","d","e","n">> >>

\* the is_error expression of both decorators
is_error(text) ==
    \/ \E k \in 1..Len(ErrorSignals) : Contains(Lower(text), ErrorSignals[k])
    \/ Len(text) < ShortLen

ErrorCached == <<"E","r","r","o","r"," ","c","a","c","h","e","d">>

Returned(r) == [kind |-> "return", value |-> r, cached |-> FALSE]
RaisedLLM(r) == [kind |-> "raise", value |-> r, cached |-> FALSE]
Cached == [kind |-> "return",
           value |-> [tag |-> "str", text |-> ErrorCached],
           cached |-> TRUE]

\* A response is [tag, text]: tag "str" carries its text, the other tags
\* ("dict", "list", "none") carry the empty text here; what a structured
\* response holds is kept by the caller.
\* cache_path and meta_data are "given" or "absent" (None, or for cache_path
\* the empty string, both falsy).

\* the wrapper of cache_error_async: what the caller gets for backend
\* response r; the `if response == 'Error cached'` test is inside
\* `if is_error`, and a backend text that is the marker itself passes it
cache_error_async(r, cache_path, meta_data) ==
    IF r.tag = "str" /\ cache_path = "given"
    THEN IF is_error(r.text)
         THEN IF meta_data = "given" THEN Cached
              ELSE IF r.text = ErrorCached THEN Returned(r)
              ELSE RaisedLLM(r)
         ELSE Returned(r)
    ELSE Returned(r)

\* the wrapper of cache_error: the `if response == 'Error cached'` test is
\* at the level of `if is_error`, not inside it
cache_error(r, cache_path, meta_data) ==
    IF r.tag = "list" THEN Returned(r)
    ELSE IF r.tag = "str" /\ cache_path = "given"
    THEN LET resp == IF is_error(r.text) /\ meta_data = "given"
                     THEN [tag |-> "str", text |-> ErrorCached]
                     ELSE r
             stored == is_error(r.text) /\ meta_data = "given"
         IN  IF resp.text = ErrorCached
             THEN [kind |-> "return", value |-> resp, cached |-> stored]
             ELSE RaisedLLM(r)
    ELSE Returned(r)

\* ------------------------------------------------------------------------
\* State
\* ------------------------------------------------------------------------

VARIABLES
    \* a decorated client call seen from its caller (logging/error.py)
    errCache,      \* the cache file at cache_path: its JSON lines
    errCall,       \* the call in hand: path, cache_path, meta_data, input, response
    errOut,        \* what the decorated call gave its caller
    errCalls,      \* decorated calls made so far
    \* API_client (LLM/LLM_route.py)
    now,                 \* time.time()
    last_request_time,   \* API_client.last_request_time
    semaphore,           \* the async caller holding API_client.semaphore, or Nobody
    cpc,                 \* where each caller of the client is
    wake,                \* the time each sleeping caller's sleep ends
    dispatches,          \* the times of the backend dispatches, in order
    last_dispatcher,     \* history: the caller of the last of them
    \* Graph_pipeline (build/pipeline/graph_pipeline.py) and its files
    G,                        \* self.G: [nodes: id -> [type, weight], edges: {u, v} -> weight]
    data,                     \* self.data: the records still to process
    processed_data,           \* self.processed_data
    semantic_units,           \* self.semantic_units
    entities,                 \* self.entities
    relationship,             \* self.relationship
    relationship_lookup,      \* self.relationship_lookup: hash_id -> index in self.relationship
    relationship_nodes,       \* self.relationship_nodes
    tasks,                    \* the graph_tasks coroutines of build_graph, one per record
    phase,                    \* where main() of the graph stage is
    run,                      \* the number of the construction run
    set_order,                \* how this process iterates a two-element frozenset of str
    text_decomposition_file,  \* the file at config.text_decomposition_path
    graph_file,               \* the pickle at config.graph_path
    relationship_file,        \* the parquet at config.relationship_path
    semantic_units_file,      \* the parquet at config.semantic_units_path
    entities_file,            \* the parquet at config.entities_path
    occurrences,              \* history: what add_semantic_unit, add_entities and
                              \* add_relationships did to each hash id in this run
    handed,                   \* history: the tuples handed to Relationship(...)
    edge_ops,                 \* history: how often each edge was added or incremented
    \* text_pipline (build/pipeline/text_pipeline.py) and its files
    texts_file,               \* the parquet at config.text_path: the text units' hash ids
    texts,                    \* self.texts
    LLM_error_cache,          \* the file at config.LLM_error_cache
    stage,                    \* "rest", or the entry point that is running
    in_flight,                \* the text units whose client call has not returned
    text_runs,                \* the runs of the text stage so far
    text_result,              \* how the last run of the text stage ended
    rerun_store,              \* LLM_store: the entries the last rerun() read from the cache
    rerun_dispatched,         \* history: the client calls rerun_request made of them
    save_calls,               \* history: the calls of request_save
    \* a Relationship object on its own (build/component/relationship.py)
    rel_call,                 \* the last call on it: its name and its relationship_tuple
    rel_obj,                  \* the object, or what the constructor raised
    rel_calls,                \* the calls made so far
    \* the ModelConfig an API_client is built from
    config_max_concurrent,    \* the maximum of in-flight calls it asks for
    \* the Neo4j database behind Neo4jStorage (storage/neo4j_storage.py)
    neo4j_nodes,              \* its :Node nodes, each with the properties it was given
    neo4j_edges,              \* its CONNECTED_TO relationships between them
    store_op,                 \* history: the last call that reached the store
    store_calls,              \* the calls made so far
    \* one graph saved to an empty database and loaded back
    nx_graph,                 \* the networkx graph: the attributes of its nodes and edges
    neo4j_props,              \* the properties of the nodes and relationships created
    loaded_graph,             \* what load_graph returned
    trip,                     \* "new", "saved" or "loaded"
    \* a NodeSearch patched by integrate_neo4j_search (neo4j_native_search.py)
    id_to_type,               \* self.id_to_type
    search_config,            \* self.config: Enode, Rnode, Hnode, cross_node
    seed_list,                \* the nodes every query starts from
    weighted_nodes,           \* what graph_search returned for the query
    retrieval,                \* the Retrieval of the query
    post_process,             \* history: the locals of the last post_process_top_k
    search_phase,             \* "query", "ranked" or "expanded"
    answers                   \* history: the results of the queries answered so far

errVars == <<errCache, errCall, errOut, errCalls>>
clientVars == <<now, last_request_time, semaphore, cpc, wake, dispatches, last_dispatcher>>

objVars == <<G, semantic_units, entities, relationship, relationship_lookup,
             relationship_nodes, occurrences, handed, edge_ops>>
fileVars == <<text_decomposition_file, graph_file, relationship_file,
              semantic_units_file, entities_file>>
graphVars == <<objVars, data, processed_data, tasks, phase, run, set_order, fileVars>>

rerunVars == <<rerun_store, rerun_dispatched, save_calls>>
textVars == <<texts_file, texts, LLM_error_cache, stage, in_flight, text_runs,
              text_result, rerunVars>>

relVars == <<rel_call, rel_obj, rel_calls>>

configVars == <<config_max_concurrent>>

tripVars == <<nx_graph, neo4j_props, loaded_graph, trip>>
storeVars == <<neo4j_nodes, neo4j_edges, store_op, store_calls, tripVars>>
searchVars == <<id_to_type, search_config, seed_list, weighted_nodes, retrieval,
                post_process, search_phase, answers>>

vars == <<errVars, clientVars, graphVars, textVars, relVars, configVars, storeVars,
          searchVars>>

\* what an action of one component leaves alone; no action writes the
\* configuration
exceptErr == <<clientVars, graphVars, textVars, relVars, configVars, storeVars,
                searchVars>>
exceptClient == <<errVars, graphVars, textVars, relVars, configVars, storeVars,
                searchVars>>
exceptGraph == <<errVars, clientVars, textVars, relVars, configVars, storeVars,
                searchVars>>
exceptRel == <<errVars, clientVars, graphVars, textVars, configVars, storeVars,
                searchVars>>
exceptSearch == <<errVars, clientVars, graphVars, textVars, relVars, configVars>>
\* the text stage shares the processing log with the graph stage
exceptText == <<errVars, clientVars, objVars, data, processed_data, tasks, phase, run,
                set_order, graph_file, relationship_file, semantic_units_file,
                entities_file, relVars, configVars, storeVars, searchVars>>

\* ------------------------------------------------------------------------
\* The decorated call: backend responses and call arguments
\* ------------------------------------------------------------------------

MaxCalls == 2

StrResp(text) == [tag |-> "str", text |-> text]

Plain99 == Rep("x", ShortLen - 1)
Plain100 == Rep("x", ShortLen)
RateLimitLong == <<"R","a","t","e"," ","L","i","m","i","t",":">> \o Rep("x", ShortLen)
ApiKeyInside == Rep("x", 60) \o <<"A","P","I"," ","k","e","y">> \o Rep("x", 60)
NearMissLong == <<"f","a","i","l","e"," ","d"," ","e","r","r"," ","o","r">> \o Rep("x", ShortLen)
ForbiddenShort == <<"F","o","r","b","i","d","d","e","n">>

\* what the backend can hand to the decorator
BackendResponses ==
    { StrResp(Plain99), StrResp(Plain100), StrResp(RateLimitLong),
      StrResp(ApiKeyInside), StrResp(NearMissLong), StrResp(ForbiddenShort),
      StrResp(ErrorCached),
      [tag |-> "dict", text |-> <<>>],
      [tag |-> "list", text |-> <<>>],
      [tag |-> "none", text |-> <<>>] }

NoMeta == [given |-> FALSE, id |-> <<>>]
Meta(id) == [given |-> TRUE, id |-> id]
MetaArg(md) == IF md.given THEN "given" ELSE "absent"

\* the input dict of a call: its query and whether it has a response_format
Input(q, fmt) == [query |-> q, response_format |-> fmt]

\* a line that keeps the response_format of the input
LLM_store_unpopped(input, md) == [input |-> input, meta_data |-> md]

\* input_data.pop('response_format') and the line written to the cache
LLM_store(input, md) ==
    [input |-> [input EXCEPT !.response_format = FALSE], meta_data |-> md]

NoCall == [path |-> "none", cache_path |-> "absent", meta_data |-> NoMeta,
           input |-> Input(<<>>, FALSE), response |-> [tag |-> "none", text |-> <<>>]]
NoOut == [kind |-> "none", value |-> [tag |-> "none", text |-> <<>>], cached |-> FALSE]

ErrInit ==
    /\ errCache = <<>>
    /\ errCall = NoCall
    /\ errOut = NoOut
    /\ errCalls = 0

\* API_client.__call__ under @cache_error_async, for backend response r
CallAsync(r, cp, md, inp) ==
    /\ errCalls < MaxCalls
    /\ LET out == cache_error_async(r, cp, MetaArg(md))
       IN  /\ errOut' = out
           /\ errCache' = IF out.cached THEN Append(errCache, LLM_store(inp, md))
                          ELSE errCache
    /\ errCall' = [path |-> "async", cache_path |-> cp, meta_data |-> md,
                   input |-> inp, response |-> r]
    /\ errCalls' = errCalls + 1
    /\ UNCHANGED exceptErr

\* API_client.request under @cache_error, for backend response r
CallSync(r, cp, md, inp) ==
    /\ errCalls < MaxCalls
    /\ LET out == cache_error(r, cp, MetaArg(md))
       IN  /\ errOut' = out
           /\ errCache' = IF out.cached THEN Append(errCache, LLM_store(inp, md))
                          ELSE errCache
    /\ errCall' = [path |-> "sync", cache_path |-> cp, meta_data |-> md,
                   input |-> inp, response |-> r]
    /\ errCalls' = errCalls + 1
    /\ UNCHANGED exceptErr

CallArgs == {"given", "absent"}
CallMetas == {NoMeta, Meta(<<"1">>)}
CallInputs == {Input(<<"q">>, TRUE), Input(<<"q">>, FALSE)}

ErrNext ==
    \/ \E r \in BackendResponses, cp \in CallArgs, md \in CallMetas, inp \in CallInputs :
           CallAsync(r, cp, md, inp)
    \/ \E r \in BackendResponses, cp \in CallArgs, md \in CallMetas, inp \in CallInputs :
           CallSync(r, cp, md, inp)

\* ------------------------------------------------------------------------
\* LLM/LLM_route.py: API_client, its semaphore, lock and request delay
\* ------------------------------------------------------------------------

Delay == 2           \* request_delay, in clock ticks
MaxTime == 5         \* the clock stops here
AsyncCallers == {"a1", "a2"}
SyncCallers == {"s1", "s2"}
Nobody == "nobody"
MaxConcurrent == 2   \* the largest maximum of in-flight calls a configuration asks for

\* the maxima a configuration can ask for
ConfiguredMaxima == 1..MaxConcurrent
AnyConfig == config_max_concurrent \in ConfiguredMaxima
PlainConfig == config_max_concurrent = 1

\* __init__: asyncio.Semaphore(1), whatever the configuration holds; the
\* variable semaphore is the one caller that holds it
SemaphoreValue == 1

\* a release that leaves the semaphore with its holder
semaphore_kept(c) == c

\* __aexit__ of `async with self.semaphore`, on a return and on an exception
semaphore_release(c) == Nobody

ClientInit ==
    /\ now = Delay               \* time.time() is far beyond last_request_time = 0.0
    /\ last_request_time = 0
    /\ semaphore = Nobody
    /\ cpc = [c \in AsyncCallers \cup SyncCallers |-> "idle"]
    /\ wake = [c \in AsyncCallers \cup SyncCallers |-> 0]
    /\ dispatches = <<>>
    /\ last_dispatcher = Nobody

Tick ==
    /\ \/ now < MaxTime
       \/ \E c \in DOMAIN cpc : cpc[c] = "sleep" /\ wake[c] > now   \* a sleep ends
    /\ now' = now + 1
    /\ UNCHANGED <<last_request_time, semaphore, cpc, wake, dispatches, last_dispatcher>>
    /\ UNCHANGED exceptClient

\* __call__: async with self.semaphore, async with self._lock, the time is
\* read; with the delay elapsed the call is dispatched at once, otherwise the
\* caller sleeps holding both
AsyncEnter(c) ==
    /\ cpc[c] = "idle"
    /\ semaphore = Nobody
    /\ semaphore' = c
    /\ IF now - last_request_time < Delay
       THEN /\ cpc' = [cpc EXCEPT ![c] = "sleep"]
            /\ wake' = [wake EXCEPT ![c] = now + (Delay - (now - last_request_time))]
            /\ UNCHANGED <<last_request_time, dispatches, last_dispatcher>>
       ELSE /\ last_request_time' = now
            /\ dispatches' = Append(dispatches, now)
            /\ last_dispatcher' = c
            /\ cpc' = [cpc EXCEPT ![c] = "inflight"]
            /\ UNCHANGED wake
    /\ UNCHANGED now
    /\ UNCHANGED exceptClient

\* __call__: asyncio.sleep is over, last_request_time is set, the lock is
\* released and predict_async is called
AsyncWake(c) ==
    /\ cpc[c] = "sleep"
    /\ c \in AsyncCallers
    /\ now >= wake[c]
    /\ last_request_time' = now
    /\ dispatches' = Append(dispatches, now)
    /\ last_dispatcher' = c
    /\ cpc' = [cpc EXCEPT ![c] = "inflight"]
    /\ UNCHANGED <<now, semaphore, wake>>
    /\ UNCHANGED exceptClient

\* __call__: predict_async returns and the semaphore is released
AsyncReturn(c) ==
    /\ cpc[c] = "inflight"
    /\ c \in AsyncCallers
    /\ semaphore' = semaphore_release(c)
    /\ cpc' = [cpc EXCEPT ![c] = "done"]
    /\ UNCHANGED <<now, last_request_time, wake, dispatches, last_dispatcher>>
    /\ UNCHANGED exceptClient

\* __call__: predict_async raises; the exception leaves the `async with`
\* block, which releases the semaphore, and reaches the caller
AsyncRaise(c) ==
    /\ cpc[c] = "inflight"
    /\ c \in AsyncCallers
    /\ semaphore' = semaphore_release(c)
    /\ cpc' = [cpc EXCEPT ![c] = "raised"]
    /\ UNCHANGED <<now, last_request_time, wake, dispatches, last_dispatcher>>
    /\ UNCHANGED exceptClient

\* request: the time and last_request_time are read, with no lock, and the
\* thread sleeps for what is left of the delay
SyncEnter(c) ==
    /\ cpc[c] = "idle"
    /\ cpc' = [cpc EXCEPT ![c] = "sleep"]
    /\ wake' = [wake EXCEPT ![c] =
                   IF now - last_request_time < Delay
                   THEN now + (Delay - (now - last_request_time))
                   ELSE now]
    /\ UNCHANGED <<now, last_request_time, semaphore, dispatches, last_dispatcher>>
    /\ UNCHANGED exceptClient

\* request: time.sleep is over and predict is called
SyncDispatch(c) ==
    /\ cpc[c] = "sleep"
    /\ c \in SyncCallers
    /\ now >= wake[c]
    /\ dispatches' = Append(dispatches, now)
    /\ last_dispatcher' = c
    /\ cpc' = [cpc EXCEPT ![c] = "inflight"]
    /\ UNCHANGED <<now, last_request_time, semaphore, wake>>
    /\ UNCHANGED exceptClient

\* request: predict returns and last_request_time is set
SyncReturn(c) ==
    /\ cpc[c] = "inflight"
    /\ c \in SyncCallers
    /\ last_request_time' = now
    /\ cpc' = [cpc EXCEPT ![c] = "done"]
    /\ UNCHANGED <<now, semaphore, wake, dispatches, last_dispatcher>>
    /\ UNCHANGED exceptClient

\* request: predict raises; the exception leaves request before the line
\* that sets last_request_time
SyncRaise(c) ==
    /\ cpc[c] = "inflight"
    /\ c \in SyncCallers
    /\ cpc' = [cpc EXCEPT ![c] = "raised"]
    /\ UNCHANGED <<now, last_request_time, semaphore, wake, dispatches, last_dispatcher>>
    /\ UNCHANGED exceptClient

ClientNext ==
    \/ Tick
    \/ \E c \in AsyncCallers : AsyncEnter(c)
    \/ \E c \in AsyncCallers : AsyncWake(c)
    \/ \E c \in AsyncCallers : AsyncReturn(c)
    \/ \E c \in AsyncCallers : AsyncRaise(c)
    \/ \E c \in SyncCallers : SyncEnter(c)
    \/ \E c \in SyncCallers : SyncDispatch(c)
    \/ \E c \in SyncCallers : SyncReturn(c)
    \/ \E c \in SyncCallers : SyncRaise(c)

\* ------------------------------------------------------------------------
\* storage.genid and the units (build/component)
\* ------------------------------------------------------------------------

RECURSIVE Concat(_)
\* ''.join(parts)
Concat(parts) == IF parts = <<>> THEN <<>> ELSE Head(parts) \o Concat(Tail(parts))

\* genid(parts, "sha256"): the digest of the concatenation of the parts in
\* the order given.  A digest is written #...#: two digests are equal exactly
\* when the concatenations are.
genid(parts) == <<"#">> \o Concat(parts) \o <<"#">>

\* Entity(raw_context, text_hash_id), with its hash_id
Entity(raw_context, text_hash_id) ==
    [raw_context |-> raw_context, text_hash_id |-> text_hash_id,
     hash_id |-> genid(<<raw_context, text_hash_id>>)]

\* Semantic_unit(raw_context, text_hash_id), with its hash_id
Semantic_unit(raw_context, text_hash_id) ==
    [raw_context |-> raw_context, text_hash_id |-> text_hash_id,
     hash_id |-> genid(<<raw_context, text_hash_id>>)]

\* The orders in which one process can iterate frozenset((first, second)) of
\* two different strings.  The two strings sit in the slots their str hash
\* gives them: in different slots the order is the slots' ("slot"), whatever
\* was inserted first; in colliding slots the second string is probed to
\* another slot, after the first ("insertion") or before it
\* ("insertion_reversed").  The str hash is seeded per process.
SetOrders == {"slot", "insertion", "insertion_reversed"}

\* list(frozenset((first, second)))
list_of_frozenset(first, second, order) ==
    IF first = second THEN <<first>>
    ELSE LET lo == CHOOSE x \in {first, second} : TRUE
             hi == CHOOSE x \in {first, second} : x # lo
         IN  CASE order = "slot" -> <<lo, hi>>
               [] order = "insertion" -> <<first, second>>
               [] OTHER -> <<second, first>>

\* str(v) for every item, None included
StrOf_of_None(v) == IF v.t = "none" THEN <<"N", "o", "n", "e">> ELSE v.s

\* "" if v is None else str(v)
StrOf(v) == IF v.t \in {"none", "missing"} THEN <<>> ELSE v.s

\* Relationship.__init__ with a relationship_tuple, and the hash_id property
Relationship(relationship_tuple, text_hash_id, order) ==
    LET cleaned0 == [i \in 1..Len(relationship_tuple) |-> StrOf(relationship_tuple[i])]
        cleaned_tuple == IF Len(cleaned0) < 3
                         THEN SubSeq(cleaned0 \o << <<>>, <<>>, <<>> >>, 1, 3)
                         ELSE cleaned0
        source == Entity(cleaned_tuple[1], text_hash_id)
        target == Entity(cleaned_tuple[3], text_hash_id)
    IN  [relationship_tuple |-> cleaned_tuple,
         source |-> source,
         target |-> target,
         unique_relationship |-> {source.hash_id, target.hash_id},
         raw_context |-> JoinWith(<<" ">>, cleaned_tuple),
         text_hash_id |-> text_hash_id,
         hash_id |-> genid(list_of_frozenset(source.hash_id, target.hash_id, order))]

\* iterating a str gives its characters, each a str
IterStr(s) == [i \in 1..Len(s) |-> PyStr(<<s[i]>>)]

\* Relationship.add(relationship_tuple): the new raw_context
Relationship_add(raw_context, relationship_tuple) ==
    LET cleaned_tuple == [i \in 1..Len(relationship_tuple) |-> StrOf(relationship_tuple[i])]
    IN  raw_context \o <<"\t">> \o JoinWith(<<" ">>, cleaned_tuple)

\* ------------------------------------------------------------------------
\* build/pipeline/graph_pipeline.py: the mutations of the graph
\* ------------------------------------------------------------------------

EmptyGraph == [nodes |-> <<>>, edges |-> <<>>]

has_node(g, n) == n \in DOMAIN g.nodes
has_edge(g, u, v) == {u, v} \in DOMAIN g.edges

\* G.add_node(n, type=type, weight=1)
add_node(g, n, type) ==
    [g EXCEPT !.nodes = (n :> [type |-> type, weight |-> 1]) @@ g.nodes]

\* a weight that goes down at an occurrence
increment_node_down(g, n) ==
    [g EXCEPT !.nodes = [g.nodes EXCEPT ![n].weight = @ - 1]]

\* G.nodes[n]['weight'] += 1
increment_node(g, n) ==
    [g EXCEPT !.nodes = [g.nodes EXCEPT ![n].weight = @ + 1]]

\* G.add_edge(u, v, weight=1) between two nodes of the graph
add_edge(g, u, v) ==
    [g EXCEPT !.edges = ({u, v} :> 1) @@ g.edges]

\* an increment of an edge's weight that is lost
increment_edge_lost(g, u, v) == g

\* G[u][v]['weight'] += 1
increment_edge(g, u, v) ==
    [g EXCEPT !.edges = [g.edges EXCEPT ![{u, v}] = @ + 1]]

NoOccurrence == [direct |-> 0, by_relationship |-> 0]

Occ(o, h) == IF h \in DOMAIN o THEN o[h] ELSE NoOccurrence

\* history: one more occurrence of hash id h in add_semantic_unit or add_entities
NoteDirect(o, h) ==
    (h :> [Occ(o, h) EXCEPT !.direct = @ + 1]) @@ o

\* history: add_relationships created the node of hash id h
NoteByRelationship(o, h) ==
    (h :> [Occ(o, h) EXCEPT !.by_relationship = @ + 1]) @@ o

\* history: one more add_edge or weight increment of the edge between u and v
NoteEdge(o, u, v) ==
    ({u, v} :> ((IF {u, v} \in DOMAIN o THEN o[{u, v}] ELSE 0) + 1)) @@ o

\* The object state the mutators work on: st.G, st.semantic_units, ...
\* (the fields of the Graph_pipeline object, and the two histories).

\* add_semantic_unit
add_semantic_unit(st, semantic_unit, text_hash_id) ==
    LET su == Semantic_unit(semantic_unit, text_hash_id)
    IN  IF has_node(st.G, su.hash_id)
        THEN [st EXCEPT !.G = increment_node(st.G, su.hash_id),
                        !.occurrences = NoteDirect(st.occurrences, su.hash_id)]
        ELSE [st EXCEPT !.G = add_node(st.G, su.hash_id, "semantic_unit"),
                        !.semantic_units = Append(st.semantic_units, su),
                        !.occurrences = NoteDirect(st.occurrences, su.hash_id)]

\* add_entities without the test G.has_node: a node is added at each occurrence
add_entity_without_has_node(st, entity_text, text_hash_id) ==
    [st EXCEPT !.G = add_node(st.G, Entity(entity_text, text_hash_id).hash_id, "entity"),
               !.entities = Append(st.entities, Entity(entity_text, text_hash_id)),
               !.occurrences =
                   NoteDirect(st.occurrences, Entity(entity_text, text_hash_id).hash_id)]

\* the body of the loop of add_entities, for one entity
add_entity(st, entity_text, text_hash_id) ==
    LET entity == Entity(entity_text, text_hash_id)
    IN  IF has_node(st.G, entity.hash_id)
        THEN [st EXCEPT !.G = increment_node(st.G, entity.hash_id),
                        !.occurrences = NoteDirect(st.occurrences, entity.hash_id)]
        ELSE [st EXCEPT !.G = add_node(st.G, entity.hash_id, "entity"),
                        !.entities = Append(st.entities, entity),
                        !.occurrences = NoteDirect(st.occurrences, entity.hash_id)]

RECURSIVE add_entities(_, _, _)
\* add_entities: the state after the loop (the hash ids it returns are
\* entities_hash_id below)
add_entities(st, ents, text_hash_id) ==
    IF ents = <<>> THEN st
    ELSE add_entities(add_entity(st, Head(ents), text_hash_id), Tail(ents), text_hash_id)

\* what add_entities returns
entities_hash_id(ents, text_hash_id) ==
    [i \in 1..Len(ents) |-> Entity(ents[i], text_hash_id).hash_id]

RECURSIVE add_semantic_belongings(_, _, _)
\* add_semantic_belongings
add_semantic_belongings(st, semantic_unit_hash_id, hash_id) ==
    IF hash_id = <<>> THEN st
    ELSE LET e == Head(hash_id)
             g == IF has_edge(st.G, semantic_unit_hash_id, e)
                  THEN increment_edge(st.G, semantic_unit_hash_id, e)
                  ELSE add_edge(st.G, semantic_unit_hash_id, e)
         IN  add_semantic_belongings(
                 [st EXCEPT !.G = g,
                            !.edge_ops = NoteEdge(@, semantic_unit_hash_id, e)],
                 semantic_unit_hash_id, Tail(hash_id))

\* relationship.split(',') and the strip of every field
split_relationship(raw) ==
    LET parts == SplitOn(raw, ",")
    IN  [i \in 1..Len(parts) |-> Strip(parts[i])]

Missing == [t |-> "missing", s |-> <<>>]

\* response.get(key, ''): the key's value, '' when the key is absent
DictGet(v) == IF v.t = "missing" THEN PyStr(<<>>) ELSE v

\* reconstruct_relationship whose fallback returns the fields as they came
reconstruct_relationship_unrepaired(relationship_fields, response) ==
    IF response.tag # "dict"
    THEN relationship_fields
    ELSE <<DictGet(response.source), DictGet(response.relationship),
           DictGet(response.target)>>

\* reconstruct_relationship, for the response the client call gave
reconstruct_relationship(relationship_fields, response) ==
    IF response.tag # "dict"
    THEN IF Len(relationship_fields) >= 3
         THEN SubSeq(relationship_fields, 1, 3)
         ELSE relationship_fields
                \o [i \in 1..(3 - Len(relationship_fields)) |-> PyStr(<<>>)]
    ELSE <<DictGet(response.source), DictGet(response.relationship),
           DictGet(response.target)>>

\* add_relationships, the loop's first pass over [source, target, relationship]:
\* a node that is missing is added, and a missing endpoint is recorded
add_relationship_node(acc, node, is_endpoint) ==
    IF has_node(acc.st.G, node.hash_id) THEN acc
    ELSE [st |-> [acc.st EXCEPT
                    !.G = add_node(acc.st.G, node.hash_id,
                                   IF is_endpoint THEN "entity" ELSE "relationship"),
                    !.relationship_nodes =
                        IF is_endpoint THEN Append(acc.st.relationship_nodes, node)
                        ELSE acc.st.relationship_nodes,
                    !.occurrences = NoteByRelationship(acc.st.occurrences, node.hash_id)],
          new |-> IF is_endpoint THEN Append(acc.new, node.hash_id) ELSE acc.new]

\* add_relationships adding no edge between the nodes of a relationship
add_relationship_edge_skipped(st, u, v) == st

\* add_relationships, the loop's second pass: an edge is added or its weight
\* incremented
add_relationship_edge(st, u, v) ==
    [st EXCEPT !.G = IF ~has_edge(st.G, u, v) THEN add_edge(st.G, u, v)
                     ELSE increment_edge(st.G, u, v),
               !.edge_ops = NoteEdge(@, u, v)]

\* `node in [relationship.source, relationship.target]`: the units compare by
\* hash id
is_endpoint_of(node, rel) ==
    node.hash_id \in {rel.source.hash_id, rel.target.hash_id}

\* add_relationships, the body of its loop from Relationship(...) on, for the
\* three fields in hand: [st, new], new being the hash ids appended to
\* entities_hash_id
add_relationship(st, fields, text_hash_id, order) ==
    LET rel == Relationship(fields, text_hash_id, order)
        st0 == st
    IN  IF rel.hash_id \in DOMAIN st0.relationship_lookup
        THEN LET k == st0.relationship_lookup[rel.hash_id]
             IN  [st |-> [st0 EXCEPT !.relationship[k].raw_context =
                              Relationship_add(@, IterStr(rel.raw_context))],
                  new |-> <<>>]
        ELSE LET st1 == [st0 EXCEPT
                           !.relationship = Append(st0.relationship, rel),
                           !.relationship_lookup =
                               (rel.hash_id :> (Len(st0.relationship) + 1))
                                   @@ st0.relationship_lookup]
                 a1 == add_relationship_node([st |-> st1, new |-> <<>>], rel.source,
                                             is_endpoint_of(rel.source, rel))
                 a2 == add_relationship_node(a1, rel.target,
                                             is_endpoint_of(rel.target, rel))
                 a3 == add_relationship_node(a2, rel, is_endpoint_of(rel, rel))
                 st2 == add_relationship_edge(a3.st, rel.source.hash_id, rel.hash_id)
                 st3 == add_relationship_edge(st2, rel.hash_id, rel.target.hash_id)
             IN  [st |-> st3, new |-> a3.new]

\* ------------------------------------------------------------------------
\* graph_tasks: one coroutine per record, suspended only in the client call
\* of reconstruct_relationship
\* ------------------------------------------------------------------------

\* A coroutine: pc is "ready" (created by build_graph), "await" (suspended in
\* reconstruct_relationship), or "done"; item and rel are the positions of
\* the two loops, new the hash ids add_relationships has collected for the
\* item, fields the split fields the reconstruction was asked for.
NewTask == [pc |-> "ready", item |-> 1, rel |-> 0, new |-> <<>>, fields |-> <<>>]

AsPyStrs(fields) == [i \in 1..Len(fields) |-> PyStr(fields[i])]

\* history: a tuple handed to Relationship(...), with where it came from
Handed(fields, reconstructed, response, tuple) ==
    [fields |-> fields, reconstructed |-> reconstructed, response |-> response,
     tuple |-> tuple]

NoResponse == [tag |-> "none", text |-> <<>>, source |-> Missing,
               relationship |-> Missing, target |-> Missing]

RECURSIVE Advance(_, _, _, _)
\* graph_tasks from the position of task t up to its next suspension or its
\* end: [st, task].  t.rel = 0 is the start of an item (add_semantic_unit,
\* add_entities), t.rel = k the k-th relationship of the item.
Advance(st, d, t, order) ==
    LET Output == d.response.Output
        tid == d.text_hash_id
    IN
    IF t.item > Len(Output) THEN [st |-> st, task |-> [t EXCEPT !.pc = "done"]]
    ELSE
    LET output == Output[t.item]
        su_hash == Semantic_unit(output.semantic_unit, tid).hash_id
    IN
    IF t.rel = 0
    THEN Advance(add_entities(add_semantic_unit(st, output.semantic_unit, tid),
                              output.entities, tid),
                 d, [t EXCEPT !.rel = 1, !.new = <<>>], order)
    ELSE IF t.rel > Len(output.relationships)
    THEN Advance(add_semantic_belongings(
                     st, su_hash, entities_hash_id(output.entities, tid) \o t.new),
                 d, [t EXCEPT !.item = @ + 1, !.rel = 0, !.new = <<>>], order)
    ELSE
    LET fields == split_relationship(output.relationships[t.rel])
    IN  IF Len(fields) # 3
        THEN [st |-> st, task |-> [t EXCEPT !.pc = "await", !.fields = fields]]
        ELSE LET r == add_relationship(st, AsPyStrs(fields), tid, order)
                 st1 == [r.st EXCEPT !.handed =
                            Append(@, Handed(fields, FALSE, NoResponse, AsPyStrs(fields)))]
             IN  Advance(st1, d, [t EXCEPT !.rel = @ + 1, !.new = @ \o r.new], order)

\* graph_tasks after the client call of reconstruct_relationship gave `got`
\* (what the decorated call returned)
AfterReconstruct(st, d, t, got, order) ==
    LET tuple == reconstruct_relationship(AsPyStrs(t.fields), got)
        r == add_relationship(st, tuple, d.text_hash_id, order)
        st1 == [r.st EXCEPT !.handed = Append(@, Handed(t.fields, TRUE, got, tuple))]
    IN  Advance(st1, d, [t EXCEPT !.rel = @ + 1, !.new = @ \o r.new, !.fields = <<>>],
                order)

St == [G |-> G, semantic_units |-> semantic_units, entities |-> entities,
       relationship |-> relationship, relationship_lookup |-> relationship_lookup,
       relationship_nodes |-> relationship_nodes, occurrences |-> occurrences,
       handed |-> handed, edge_ops |-> edge_ops]

\* the fields of a Graph_pipeline constructed on an empty folder
EmptyState ==
    [G |-> EmptyGraph, semantic_units |-> <<>>, entities |-> <<>>,
     relationship |-> <<>>, relationship_lookup |-> <<>>,
     relationship_nodes |-> <<>>, occurrences |-> <<>>, handed |-> <<>>,
     edge_ops |-> <<>>]

\* the object's fields after a step that left them as st
Becomes(st) ==
    /\ G' = st.G
    /\ semantic_units' = st.semantic_units
    /\ entities' = st.entities
    /\ relationship' = st.relationship
    /\ relationship_lookup' = st.relationship_lookup
    /\ relationship_nodes' = st.relationship_nodes
    /\ occurrences' = st.occurrences
    /\ handed' = st.handed
    /\ edge_ops' = st.edge_ops

\* ------------------------------------------------------------------------
\* The records of the processing log and the responses of the reconstruction
\* ------------------------------------------------------------------------

MaxUnits == 2      \* records in the processing log
MaxRuns == 2       \* construction runs
MaxNew == 1        \* records the text stage appends to the log between two runs

cA == <<"A">>
cB == <<"B">>
cS == <<"S">>
cT == <<"T">>
RawArB == <<"A", ",", " ", "r", ",", " ", "B">>
RawBsA == <<"B", ",", "s", ",", "A">>
RawAsB == <<"A", ",", " ", "s", " ", ",", "B">>
RawAB == <<"A", ",", "B">>
RawArBx == <<"A", ",", "r", ",", "B", ",", "x">>
RawArA == <<"A", ",", "r", ",", "A">>

Item(su, ents, rels) == [semantic_unit |-> su, entities |-> ents, relationships |-> rels]

Structured(Output) == [tag |-> "dict", text |-> <<>>, Output |-> Output]

\* a structured response that has no 'Output' key
NoOutput == [tag |-> "dict_no_Output", text |-> <<>>, Output |-> <<>>]

\* the responses a record of the log can hold
DecompositionResponses ==
    { Structured(<<Item(cS, <<cA, cB>>, <<RawArB>>)>>),
      Structured(<<Item(cS, <<cA, cB>>, <<RawArB, RawBsA>>)>>),
      Structured(<<Item(cS, <<cA, cB>>, <<RawArB, RawAsB>>)>>),
      Structured(<<Item(cS, <<cA>>, <<>>)>>),
      Structured(<<Item(cS, <<cA>>, <<RawArB>>)>>),
      Structured(<<Item(cS, <<cA, cA>>, <<RawAB>>)>>),
      Structured(<<Item(cA, <<cA>>, <<RawArBx>>), Item(cA, <<cB>>, <<RawArA>>)>>),
      Structured(<<Item(cS, <<cA, cB>>, <<RawArB>>), Item(cT, <<cA>>, <<RawAsB>>)>>),
      [tag |-> "str", text |-> ErrorCached, Output |-> <<>>],
      NoOutput }

TextIds == { <<"1">>, <<"2">> }

\* a record as the text stage appends it: it has no 'processed' key
LogRecords ==
    { [text_hash_id |-> tid, response |-> r, processed |-> FALSE] :
          tid \in TextIds, r \in DecompositionResponses }

\* the logs of at most n records
LogsUpTo(n) == UNION { [1..k -> LogRecords] : k \in 0..n }

\* what the backend can answer to a reconstruction request
ReconstructionResponses ==
    { [tag |-> "dict", text |-> <<>>, source |-> PyStr(cA),
       relationship |-> PyStr(<<"r">>), target |-> PyStr(cB)],
      [tag |-> "dict", text |-> <<>>, source |-> PyNone,
       relationship |-> PyStr(<<"r">>), target |-> Missing],
      [tag |-> "str", text |-> ForbiddenShort, source |-> Missing,
       relationship |-> Missing, target |-> Missing],
      NoResponse }

\* ------------------------------------------------------------------------
\* The construction run
\* ------------------------------------------------------------------------

NoFile == [exists |-> FALSE, content |-> <<>>]
File(content) == [exists |-> TRUE, content |-> content]

\* check_processed
check_processed(d) == ~d.processed

RECURSIVE SelectSeq2(_, _)
SelectSeq2(s, keep) ==
    IF s = <<>> THEN <<>>
    ELSE (IF keep[1] THEN <<Head(s)>> ELSE <<>>)
             \o SelectSeq2(Tail(s), Tail(keep))

\* load_data: [data, processed_data]
load_data(file) ==
    [data |-> SelectSeq2(file, [i \in 1..Len(file) |-> check_processed(file[i])]),
     processed_data |->
         SelectSeq2(file, [i \in 1..Len(file) |-> ~check_processed(file[i])])]

\* load_graph
load_graph(file) == IF file.exists THEN file.content ELSE EmptyGraph

\* load_relationship: Relationship.from_df_row reads row['unique_relationship']
\* of a row of df.itertuples(), a named tuple, which raises TypeError; with
\* no file, or no row in it, the list and the lookup are empty
load_relationship_raises(file) == file.exists /\ Len(file.content) > 0

\* Graph_pipeline.__init__ in a process whose frozenset order is `order`
Construct(log, order) ==
    /\ set_order' = order
    /\ G' = load_graph(graph_file)
    /\ data' = load_data(log).data
    /\ processed_data' = load_data(log).processed_data
    /\ semantic_units' = <<>>
    /\ entities' = <<>>
    /\ relationship' = <<>>
    /\ relationship_lookup' = <<>>
    /\ relationship_nodes' = <<>>
    /\ occurrences' = <<>>
    /\ handed' = <<>>
    /\ edge_ops' = <<>>
    /\ IF load_relationship_raises(relationship_file)
       THEN /\ phase' = "crashed"
            /\ tasks' = <<>>
       ELSE /\ phase' = "building"
            /\ tasks' = [i \in 1..Len(load_data(log).data) |-> NewTask]

GraphInit ==
    /\ run = 1
    /\ text_decomposition_file \in LogsUpTo(MaxUnits)
    /\ graph_file = NoFile
    /\ relationship_file = NoFile
    /\ semantic_units_file = NoFile
    /\ entities_file = NoFile
    /\ set_order \in SetOrders
    /\ G = EmptyGraph
    /\ data = text_decomposition_file
    /\ processed_data = <<>>
    /\ semantic_units = <<>>
    /\ entities = <<>>
    /\ relationship = <<>>
    /\ relationship_lookup = <<>>
    /\ relationship_nodes = <<>>
    /\ occurrences = <<>>
    /\ handed = <<>>
    /\ edge_ops = <<>>
    /\ phase = "building"
    /\ tasks = [i \in 1..Len(text_decomposition_file) |-> NewTask]

\* a graph_tasks that takes every response for a structured object
is_dict_always(response) == TRUE

\* graph_tasks: isinstance(response, dict)
is_dict(response) == response.tag \in {"dict", "dict_no_Output"}

\* build_graph: asyncio.gather starts the coroutines in the order of
\* self.data; each runs to its first suspension
StartTask(i) ==
    /\ phase = "building"
    /\ i \in 1..Len(tasks)
    /\ tasks[i].pc = "ready"
    /\ \A j \in 1..(i - 1) : tasks[j].pc # "ready"
    /\ IF is_dict(data[i].response) /\ data[i].response = NoOutput
       THEN \* response.get('Output') is None, and `for output in Output` raises
            /\ tasks' = [tasks EXCEPT ![i].pc = "raised"]
            /\ UNCHANGED <<objVars, data>>
       ELSE IF is_dict(data[i].response)
       THEN LET r == Advance(St, data[i], tasks[i], set_order)
            IN  /\ Becomes(r.st)
                /\ tasks' = [tasks EXCEPT ![i] = r.task]
                /\ data' = [data EXCEPT ![i].processed = (r.task.pc = "done") \/ @]
       ELSE /\ tasks' = [tasks EXCEPT ![i].pc = "done"]
            /\ UNCHANGED <<objVars, data>>
    /\ UNCHANGED <<processed_data, phase, run, set_order, fileVars>>
    /\ UNCHANGED exceptGraph

\* a suspended coroutine gets the result of self.API_request(input_data):
\* the call has no cache_path and no meta_data
ResumeTask(i, response) ==
    /\ phase = "building"
    /\ i \in 1..Len(tasks)
    /\ tasks[i].pc = "await"
    /\ \A j \in 1..Len(tasks) : tasks[j].pc # "ready"
    /\ LET out == cache_error_async(response, "absent", "absent")
       IN  /\ out.kind = "return"
           /\ LET r == AfterReconstruct(St, data[i], tasks[i], out.value, set_order)
              IN  /\ Becomes(r.st)
                  /\ tasks' = [tasks EXCEPT ![i] = r.task]
                  /\ data' = [data EXCEPT ![i].processed = (r.task.pc = "done") \/ @]
    /\ UNCHANGED <<processed_data, phase, run, set_order, fileVars>>
    /\ UNCHANGED exceptGraph

\* build_graph: asyncio.gather hands the exception of a task to main(), which
\* ends with it; the tasks created before have run their first step by then,
\* and the suspended ones are cancelled
BuildGraphRaises ==
    /\ phase = "building"
    /\ \E i \in 1..Len(tasks) : tasks[i].pc = "raised"
    /\ \A i \in 1..Len(tasks) : tasks[i].pc # "ready"
    /\ phase' = "task_raised"
    /\ UNCHANGED <<objVars, data, processed_data, tasks, run, set_order, fileVars>>
    /\ UNCHANGED exceptGraph

CountOfType(g, type) == Cardinality({n \in DOMAIN g.nodes : g.nodes[n].type = type})

\* a save() without the three asserts
save_asserts_skipped == TRUE

\* the asserts of save_semantic_units, save_entities and save_relationships
save_asserts_hold ==
    /\ Len(semantic_units) = CountOfType(G, "semantic_unit")
    /\ Len(entities) + Len(relationship_nodes) = CountOfType(G, "entity")
    /\ Len(relationship) = CountOfType(G, "relationship")

\* the rows save_semantic_units, save_entities and save_relationships build
UnitRows(units, type) ==
    [i \in 1..Len(units) |->
        [hash_id |-> units[i].hash_id, type |-> type,
         context |-> units[i].raw_context,
         weight |-> G.nodes[units[i].hash_id].weight]]

RelationshipRows ==
    [i \in 1..Len(relationship) |->
        [hash_id |-> relationship[i].hash_id, type |-> "relationship",
         unique_relationship |-> relationship[i].unique_relationship,
         context |-> relationship[i].raw_context,
         weight |-> G.nodes[relationship[i].hash_id].weight]]

\* an append that writes its rows twice
save_parquet_twice(file, rows) == File(file.content \o rows \o rows)

\* storage(rows).save_parquet(path, append = os.path.exists(path))
save_parquet(file, rows) == File(file.content \o rows)

AllTasksDone == \A i \in 1..Len(tasks) : tasks[i].pc = "done"

\* main() after build_graph: save() with its three asserts, save_graph()
\* and save_data().  A failed assert ends main() before anything is written.
Save ==
    /\ phase = "building"
    /\ AllTasksDone
    /\ IF save_asserts_hold
       THEN /\ semantic_units_file' =
                   save_parquet(semantic_units_file, UnitRows(semantic_units, "semantic_unit"))
            /\ entities_file' =
                   save_parquet(entities_file,
                                UnitRows(entities \o relationship_nodes, "entity"))
            /\ relationship_file' = save_parquet(relationship_file, RelationshipRows)
            /\ graph_file' = IF data = <<>> THEN graph_file ELSE File(G)
            /\ processed_data' = processed_data \o data
            /\ text_decomposition_file' = processed_data \o data
            /\ phase' = "saved"
       ELSE /\ phase' = "assert_failed"
            /\ UNCHANGED <<fileVars, processed_data>>
    /\ UNCHANGED <<objVars, data, tasks, run, set_order>>
    /\ UNCHANGED exceptGraph

\* a main() that writes the processing log before the stores and the graph
main_order_data_first == <<"save_data", "save", "save_graph">>

\* main() after build_graph: save(), save_graph(), [store_all_indices,]
\* save_data(), in this order
main_order == <<"save", "save_graph", "save_data">>

\* step is among the first k steps of main() after build_graph
StepDone(k, step) == \E j \in 1..k : main_order[j] = step

\* an aborted run has completed at least one step and not the last
MaxSteps == Len(main_order) - 1

\* main() ends part-way (the process is stopped, or store_all_indices or a
\* write raises): the first k steps after build_graph have completed; when
\* the next one is save_data, it has opened the log with 'w' and written
\* its first n lines
MainAborts(k, n) ==
    /\ phase = "building"
    /\ AllTasksDone
    /\ save_asserts_hold
    /\ k \in 1..MaxSteps
    /\ IF main_order[k + 1] = "save_data"
       THEN n \in 0..(Len(processed_data \o data) - 1)
       ELSE n = 0
    /\ semantic_units_file' =
           IF StepDone(k, "save")
           THEN save_parquet(semantic_units_file, UnitRows(semantic_units, "semantic_unit"))
           ELSE semantic_units_file
    /\ entities_file' =
           IF StepDone(k, "save")
           THEN save_parquet(entities_file, UnitRows(entities \o relationship_nodes, "entity"))
           ELSE entities_file
    /\ relationship_file' =
           IF StepDone(k, "save")
           THEN save_parquet(relationship_file, RelationshipRows)
           ELSE relationship_file
    /\ graph_file' =
           IF StepDone(k, "save_graph") /\ data # <<>> THEN File(G) ELSE graph_file
    /\ IF StepDone(k, "save_data")
       THEN /\ processed_data' = processed_data \o data
            /\ text_decomposition_file' = processed_data \o data
       ELSE IF main_order[k + 1] = "save_data"
       THEN /\ processed_data' = processed_data \o data
            /\ text_decomposition_file' = SubSeq(processed_data \o data, 1, n)
       ELSE UNCHANGED <<processed_data, text_decomposition_file>>
    /\ phase' = "aborted"
    /\ UNCHANGED <<objVars, data, tasks, run, set_order>>
    /\ UNCHANGED exceptGraph

\* the records the text stage has written so far: those of the log, or those
\* the last run had loaded when it cut the log short
UnitsWritten ==
    IF Len(data) > Len(text_decomposition_file)
    THEN Len(data)
    ELSE Len(text_decomposition_file)

\* the next construction run, in a new process: the text stage has appended
\* `new` to the processing log, and Graph_pipeline is constructed
NextRun(new, order) ==
    /\ phase \in {"saved", "assert_failed", "crashed", "task_raised", "aborted"}
    /\ run < MaxRuns
    /\ UnitsWritten + Len(new) <= MaxUnits
    /\ run' = run + 1
    /\ text_decomposition_file' = text_decomposition_file \o new
    /\ Construct(text_decomposition_file \o new, order)
    /\ UNCHANGED <<graph_file, relationship_file, semantic_units_file, entities_file>>
    /\ UNCHANGED exceptGraph

GraphNext ==
    \/ \E i \in 1..MaxUnits : StartTask(i)
    \/ \E i \in 1..MaxUnits, response \in ReconstructionResponses : ResumeTask(i, response)
    \/ BuildGraphRaises
    \/ Save
    \/ \E k \in 1..MaxSteps, n \in 0..MaxUnits : MainAborts(k, n)
    \/ \E new \in LogsUpTo(MaxNew), order \in SetOrders : NextRun(new, order)

\* the graph stage at rest, for the specifications of the other components
GraphIdle ==
    /\ run = 0
    /\ graph_file = NoFile
    /\ relationship_file = NoFile
    /\ semantic_units_file = NoFile
    /\ entities_file = NoFile
    /\ set_order = "slot"
    /\ G = EmptyGraph
    /\ data = <<>>
    /\ processed_data = <<>>
    /\ semantic_units = <<>>
    /\ entities = <<>>
    /\ relationship = <<>>
    /\ relationship_lookup = <<>>
    /\ relationship_nodes = <<>>
    /\ occurrences = <<>>
    /\ handed = <<>>
    /\ edge_ops = <<>>
    /\ phase = "idle"
    /\ tasks = <<>>

\* ------------------------------------------------------------------------
\* build/pipeline/text_pipeline.py: the text decomposition stage
\* ------------------------------------------------------------------------

\* Text_unit.text_decomposition after its client call returned: a cached
\* failure leaves the log alone, any other response is appended to it with
\* the unit's meta_data
text_decomposition_line(u, value) ==
    [text_hash_id |-> u, response |-> value, processed |-> FALSE]

MaxTextRuns == 3     \* runs of the text stage
TextUnits == TextIds

PlainLong == Rep("y", ShortLen)

\* what the backend can answer to a decomposition request
TextResponses ==
    { Structured(<<Item(cS, <<cA, cB>>, <<RawArB>>)>>),
      [tag |-> "str", text |-> PlainLong, Output |-> <<>>],
      [tag |-> "str", text |-> ForbiddenShort, Output |-> <<>>] }

\* increment: the hash ids the processing log holds; a line counts whatever
\* its response is
\* A line of the processing log that is no record: a blank line, a line that
\* is not JSON (json.loads raises JSONDecodeError), a line that is JSON and
\* no object (line_data.get raises AttributeError).  It is written as a
\* record whose response has the tag of its kind.
OtherLine(kind) ==
    [text_hash_id |-> <<>>, response |-> [tag |-> kind, text |-> <<>>, Output |-> <<>>],
     processed |-> FALSE]
BlankLine == OtherLine("blank")
NotJsonLine == OtherLine("not_json")
NotObjectLine == OtherLine("not_object")

is_record(line) == line.response.tag \notin {"blank", "not_json", "not_object"}

exist_hash_id(log) == {log[i].text_hash_id : i \in {j \in 1..Len(log) : is_record(log[j])}}

\* an increment whose read of the log ends at the first line that is no record
increment_until_malformed(all_texts, log) ==
    all_texts \ {log[i].text_hash_id :
                    i \in {j \in 1..Len(log) : \A m \in 1..j : is_record(log[m])}}

\* increment: self.texts without the text units the log holds; blank lines
\* and lines that are not JSON are skipped, any other exception of the read
\* is caught and increment returns with self.texts as it was
increment(all_texts, log) ==
    IF \E i \in 1..Len(log) : log[i] = NotObjectLine
    THEN all_texts
    ELSE all_texts \ exist_hash_id(log)

\* a check_error_cache that finds no line
error_count_none(cache) == 0

\* the non-blank lines check_error_cache counts
error_count(cache) == IF cache.exists THEN Len(cache.content) ELSE 0

\* the meta_data and the input of the call of text unit u
TextMeta(u) == Meta(u)
TextInput(u) == Input(u, TRUE)

\* how a run of the stage ended; num is the count the raised error reports
TextResult(kind, num) == [kind |-> kind, num |-> num]

MaxLogLines == 2     \* lines of the processing log the first run finds

\* the lines the first run can find in the processing log
FoundLines ==
    { text_decomposition_line(<<"1">>, Structured(<<Item(cS, <<cA, cB>>, <<RawArB>>)>>)),
      BlankLine, NotJsonLine, NotObjectLine }

\* the logs the first run can find: an earlier run left at most one record
\* of a text unit, and blank or malformed lines stand anywhere around it
FoundLogs ==
    { log \in UNION { [1..k -> FoundLines] : k \in 0..MaxLogLines } :
        Cardinality({i \in 1..Len(log) : is_record(log[i])}) <= 1 }

TextInit ==
    /\ texts_file \in (SUBSET TextUnits) \ {{}}
    /\ texts = {}
    /\ LLM_error_cache = NoFile
    /\ stage = "rest"
    /\ in_flight = {}
    /\ text_runs = 0
    /\ text_result = TextResult("none", 0)
    /\ rerun_store = <<>>
    /\ rerun_dispatched = <<>>
    /\ save_calls = 0

\* text_pipline(config) and main() up to the gather of
\* text_decomposition_pipline: the texts are loaded, filtered by increment,
\* and one client call per remaining text unit is started
MainStart ==
    /\ stage = "rest"
    /\ text_runs < MaxTextRuns
    /\ text_runs' = text_runs + 1
    /\ texts' = increment(texts_file, text_decomposition_file)
    /\ in_flight' = increment(texts_file, text_decomposition_file)
    /\ stage' = "main"
    /\ text_result' = TextResult("running", 0)
    /\ rerun_store' = <<>>
    /\ rerun_dispatched' = <<>>
    /\ UNCHANGED <<texts_file, LLM_error_cache, text_decomposition_file, save_calls>>
    /\ UNCHANGED exceptText

\* the parameters of request_save after self (input_data, meta_data), and
\* the arguments rerun_request calls it with (input_data, store, self.config)
request_save_parameters == 2
rerun_request_arguments == 3

\* rerun(): the cache is read into LLM_store and cleared, then rerun_request
\* calls self.request_save(input_data, store, self.config) for the first
\* entry, which raises TypeError, the arguments not being the parameters:
\* no call reaches the client.  With no entry, rerun() goes on as main()
\* does.  With no cache file, open raises FileNotFoundError.
RerunStart ==
    /\ stage = "rest"
    /\ text_runs < MaxTextRuns
    /\ text_runs' = text_runs + 1
    /\ rerun_dispatched' = <<>>
    /\ IF ~LLM_error_cache.exists
       THEN /\ text_result' = TextResult("FileNotFoundError", 0)
            /\ texts' = texts_file
            /\ rerun_store' = <<>>
            /\ UNCHANGED <<LLM_error_cache, stage, in_flight>>
       ELSE IF Len(LLM_error_cache.content) > 0
       THEN /\ rerun_request_arguments # request_save_parameters
            /\ rerun_store' = LLM_error_cache.content
            /\ LLM_error_cache' = File(<<>>)
            /\ text_result' = TextResult("TypeError", 0)
            /\ texts' = texts_file
            /\ UNCHANGED <<stage, in_flight>>
       ELSE /\ rerun_store' = <<>>
            /\ LLM_error_cache' = File(<<>>)
            /\ texts' = increment(texts_file, text_decomposition_file)
            /\ in_flight' = increment(texts_file, text_decomposition_file)
            /\ stage' = "rerun"
            /\ text_result' = TextResult("running", 0)
    /\ UNCHANGED <<texts_file, text_decomposition_file, save_calls>>
    /\ UNCHANGED exceptText

\* the client call of text unit u returns, the backend having answered r
Complete(u, r) ==
    /\ stage \in {"main", "rerun"}
    /\ u \in in_flight
    /\ in_flight' = in_flight \ {u}
    /\ LET out == cache_error_async(r, "given", MetaArg(TextMeta(u)))
       IN  IF out.cached
           THEN /\ LLM_error_cache' =
                       File(LLM_error_cache.content
                                \o <<LLM_store(TextInput(u), TextMeta(u))>>)
                /\ UNCHANGED text_decomposition_file
           ELSE /\ out.kind = "return"
                /\ text_decomposition_file' =
                       Append(text_decomposition_file, text_decomposition_line(u, r))
                /\ UNCHANGED LLM_error_cache
    /\ UNCHANGED <<texts_file, texts, stage, text_runs, text_result, rerunVars>>
    /\ UNCHANGED exceptText

\* check_error_cache at the end of main() and rerun(): it raises when the
\* cache file has a non-blank line
Finish ==
    /\ stage \in {"main", "rerun"}
    /\ in_flight = {}
    /\ stage' = "rest"
    /\ text_result' = IF error_count(LLM_error_cache) > 0
                       THEN TextResult("raised", error_count(LLM_error_cache))
                       ELSE TextResult("returned", 0)
    /\ UNCHANGED <<texts_file, texts, LLM_error_cache, in_flight, text_runs,
                   text_decomposition_file, rerunVars>>
    /\ UNCHANGED exceptText

\* the process ends while calls are in flight (an error of the backend that
\* the client does not classify, or the process is stopped)
Abort ==
    /\ stage \in {"main", "rerun"}
    /\ in_flight # {}
    /\ stage' = "rest"
    /\ in_flight' = {}
    /\ text_result' = TextResult("aborted", 0)
    /\ UNCHANGED <<texts_file, texts, LLM_error_cache, text_runs, text_decomposition_file,
                   rerunVars>>
    /\ UNCHANGED exceptText

\* a text unit is added to the text parquet between two runs
AddText(u) ==
    /\ stage = "rest"
    /\ u \notin texts_file
    /\ texts_file' = texts_file \cup {u}
    /\ UNCHANGED <<texts, LLM_error_cache, stage, in_flight, text_runs, text_result,
                   text_decomposition_file, rerunVars>>
    /\ UNCHANGED exceptText

MaxSaves == 3     \* calls of request_save

\* request_save(input_data, meta_data) called with the arguments it
\* declares, the backend answering r: the client call with the cache path
\* and the meta_data, then the line {**meta_data, 'response': response}
\* appended to the processing log whatever the response is
RequestSave(u, r) ==
    /\ stage = "rest"
    /\ save_calls < MaxSaves
    /\ save_calls' = save_calls + 1
    /\ LET out == cache_error_async(r, "given", MetaArg(TextMeta(u)))
           response == IF out.cached
                       THEN [tag |-> "str", text |-> ErrorCached, Output |-> <<>>]
                       ELSE r
       IN  /\ out.kind = "return"
           /\ LLM_error_cache' =
                  IF out.cached
                  THEN File(LLM_error_cache.content
                                \o <<LLM_store(TextInput(u), TextMeta(u))>>)
                  ELSE LLM_error_cache
           /\ text_decomposition_file' =
                  Append(text_decomposition_file, text_decomposition_line(u, response))
    /\ UNCHANGED <<texts_file, texts, stage, in_flight, text_runs, text_result,
                   rerun_store, rerun_dispatched>>
    /\ UNCHANGED exceptText

SaveNext == \E u \in TextUnits, r \in TextResponses : RequestSave(u, r)

TextNext ==
    \/ MainStart
    \/ RerunStart
    \/ \E u \in TextUnits, r \in TextResponses : Complete(u, r)
    \/ Finish
    \/ Abort
    \/ \E u \in TextUnits : AddText(u)

\* the text stage at rest, for the specifications of the other components
TextIdle ==
    /\ texts_file = {}
    /\ texts = {}
    /\ LLM_error_cache = NoFile
    /\ stage = "idle"
    /\ in_flight = {}
    /\ text_runs = 0
    /\ text_result = TextResult("none", 0)
    /\ rerun_store = <<>>
    /\ rerun_dispatched = <<>>
    /\ save_calls = 0

\* ------------------------------------------------------------------------
\* build/component/relationship.py: a Relationship built and added to
\* ------------------------------------------------------------------------

MaxRelCalls == 2     \* calls on the object
MaxFields == 3       \* items of a relationship_tuple

\* the items a relationship_tuple can hold: str, None, and an int
FieldValues == {PyStr(cA), PyStr(<<"r">>), PyNone, PyInt(<<"5">>)}

RelationshipTuples == UNION { [1..k -> FieldValues] : k \in 0..MaxFields }

NoRelCall == [op |-> "none", relationship_tuple |-> <<>>]

RelInit ==
    /\ rel_call = NoRelCall
    /\ rel_obj = [kind |-> "none"]
    /\ rel_calls = 0

\* Relationship(relationship_tuple, text_hash_id): an empty tuple is falsy,
\* and with no frozen_set the constructor raises ValueError
RelNew(relationship_tuple, order) ==
    /\ rel_calls < MaxRelCalls
    /\ rel_obj.kind # "object"
    /\ rel_calls' = rel_calls + 1
    /\ rel_call' = [op |-> "__init__", relationship_tuple |-> relationship_tuple]
    /\ rel_obj' = IF relationship_tuple = <<>>
                  THEN [kind |-> "ValueError"]
                  ELSE [kind |-> "object",
                        it |-> Relationship(relationship_tuple, <<"1">>, order)]
    /\ UNCHANGED exceptRel

\* Relationship.add(relationship_tuple)
RelAdd(relationship_tuple) ==
    /\ rel_calls < MaxRelCalls
    /\ rel_obj.kind = "object"
    /\ rel_calls' = rel_calls + 1
    /\ rel_call' = [op |-> "add", relationship_tuple |-> relationship_tuple]
    /\ rel_obj' = [rel_obj EXCEPT !.it.raw_context =
                       Relationship_add(@, relationship_tuple)]
    /\ UNCHANGED exceptRel

RelNext ==
    \/ \E t \in RelationshipTuples, order \in SetOrders : RelNew(t, order)
    \/ \E t \in RelationshipTuples : RelAdd(t)

\* no Relationship object on its own, for the other components
RelIdle ==
    /\ rel_call = NoRelCall
    /\ rel_obj = [kind |-> "idle"]
    /\ rel_calls = 0

\* ------------------------------------------------------------------------
\* neo4j_native_search.py: ranking and type-aware expansion over the store
\* ------------------------------------------------------------------------

\* a property the store does not hold for a node (None in Python)
NoneValue == "None"
NoNode == 0          \* the related_node of a node that has none
NoUser == ""         \* the user_id of a node that was given none

\* a :Node of the store.  Hash ids are numbers here, ordered as the strings
\* are; attributes is the list the JSON text of the property decodes to
\* (empty when the node has none), related_node a hash id or NoNode
StoreNode(eid, id, user_id, type, attributes, related_node) ==
    [eid |-> eid, id |-> id, user_id |-> user_id, type |-> type,
     attributes |-> attributes, related_node |-> related_node]

\* a CONNECTED_TO relationship from the node source to the node target
StoreEdge(eid, source, target) == [eid |-> eid, source |-> source, target |-> target]

InList(list, x) == \E i \in 1..Len(list) : list[i] = x

\* the sequences that hold every element of S once
Orderings(S) ==
    {f \in [1..Cardinality(S) -> S] : \A i, j \in 1..Cardinality(S) : f[i] = f[j] => i = j}

\* the nodes at the other end of a relationship e of node n, in any direction
OtherEnd(e, n) == IF e.source = n THEN e.target ELSE e.source
Touches(e, n) == e.source = n \/ e.target = n

\* MATCH (seed)-[:CONNECTED_TO*1..2]-(connected): the nodes a path of one or
\* two different relationships leads to from the node seed
Connected(edges, seed) ==
    {OtherEnd(e, seed) : e \in {x \in edges : Touches(x, seed)}}
    \cup
    UNION {{OtherEnd(e2, OtherEnd(e1, seed)) :
                e2 \in {x \in edges : x # e1 /\ Touches(x, OtherEnd(e1, seed))}} :
            e1 \in {x \in edges : Touches(x, seed)}}

\* count(DISTINCT seed): the seed nodes that reach the node connected
seed_connections(nodes, edges, seed_nodes, connected) ==
    Cardinality({n \in nodes : /\ InList(seed_nodes, n.id)
                               /\ connected \in Connected(edges, n.eid)})

\* count(DISTINCT neighbor) over MATCH (connected)-[:CONNECTED_TO]-(neighbor)
total_degree(edges, connected) ==
    Cardinality({OtherEnd(e, connected) : e \in {x \in edges : Touches(x, connected)}})

\* score a >= score b, the score being seed_connections / (total_degree + 1)
ScoreAtLeast(nodes, edges, seed_nodes, a, b) ==
    seed_connections(nodes, edges, seed_nodes, a) * (total_degree(edges, b) + 1)
        >= seed_connections(nodes, edges, seed_nodes, b) * (total_degree(edges, a) + 1)

\* pagerank_subgraph: the rows the query can return.  ORDER BY score DESC
\* orders rows of different score; the query names no order for rows of equal
\* score, so each of their orders is a result.  (LIMIT 500 is beyond the
\* stores modelled here.)
pagerank_subgraph(nodes, edges, seed_nodes) ==
    LET reached == UNION {Connected(edges, n.eid) : n \in {m \in nodes : InList(seed_nodes, m.id)}}
    IN  {rows \in Orderings(reached) :
            \A i, j \in 1..Len(rows) :
                i < j => ScoreAtLeast(nodes, edges, seed_nodes, rows[i], rows[j])}

\* the id of the node with the internal identity eid
IdOf(nodes, eid) == (CHOOSE n \in nodes : n.eid = eid).id

\* neo4j_graph_search: the ids of the rows, the scores dropped
neo4j_graph_search(nodes, rows) == [i \in 1..Len(rows) |-> IdOf(nodes, rows[i])]

\* get_all_node_types: {id: type} over the nodes of the store
get_all_node_types(nodes) ==
    [id \in {n.id : n \in nodes} |-> (CHOOSE n \in nodes : n.id = id).type]

\* get_batch_node_properties: the properties, None ones left out, of the
\* nodes of node_ids the store holds
NoProperties == [type |-> NoneValue, attributes |-> <<>>, related_node |-> NoNode]
get_batch_node_properties(nodes, node_ids) ==
    [id \in {n.id : n \in {m \in nodes : m.id \in node_ids}} |->
        LET n == CHOOSE m \in nodes : m.id = id
        IN  [type |-> n.type, attributes |-> n.attributes, related_node |-> n.related_node]]

\* node_properties.get(node, {})
PropertiesGet(node_properties, node) ==
    IF node \in DOMAIN node_properties THEN node_properties[node] ELSE NoProperties

\* the locals of neo4j_post_process_top_k and the two lists of the retrieval
\* it works on; walked counts the ranked nodes the loop has gone over
WalkStart(r) ==
    [entity_list |-> <<>>, relationship_list |-> <<>>,
     high_level_element_title_list |-> <<>>, addition_node |-> 0,
     search_list |-> r.search_list, unique_search_list |-> r.unique_search_list,
     walked |-> 0, broke |-> FALSE]

\* a walk that never looks at the caps
CapsMet_never(w, cfg) == FALSE

\* the test of lines 412-415
CapsMet(w, cfg) ==
    /\ w.addition_node >= cfg.cross_node
    /\ Len(w.entity_list) >= cfg.Enode
    /\ Len(w.relationship_list) >= cfg.Rnode
    /\ Len(w.high_level_element_title_list) >= cfg.Hnode

\* one pass of the loop over weighted_nodes (lines 383-416)
WalkStep(w, node, node_properties, cfg) ==
    IF InList(w.search_list, node)
    THEN [w EXCEPT !.walked = @ + 1]
    ELSE LET node_type == PropertiesGet(node_properties, node).type
             w1 == CASE node_type = "entity" ->
                           IF ~InList(w.entity_list, node) /\ Len(w.entity_list) < cfg.Enode
                           THEN [w EXCEPT !.entity_list = Append(@, node)]
                           ELSE w
                      [] node_type = "relationship" ->
                           IF /\ ~InList(w.relationship_list, node)
                              /\ Len(w.relationship_list) < cfg.Rnode
                           THEN [w EXCEPT !.relationship_list = Append(@, node)]
                           ELSE w
                      [] node_type = "high_level_element_title" ->
                           IF /\ ~InList(w.high_level_element_title_list, node)
                              /\ Len(w.high_level_element_title_list) < cfg.Hnode
                           THEN [w EXCEPT !.high_level_element_title_list = Append(@, node)]
                           ELSE w
                      [] OTHER ->
                           IF /\ w.addition_node < cfg.cross_node
                              /\ node \notin w.unique_search_list
                           THEN [w EXCEPT !.search_list = Append(@, node),
                                          !.unique_search_list = @ \cup {node},
                                          !.addition_node = @ + 1]
                           ELSE w
         IN  [w1 EXCEPT !.walked = @ + 1, !.broke = CapsMet(w1, cfg)]

RECURSIVE Walk(_, _, _, _, _)
Walk(w, ranked, i, node_properties, cfg) ==
    IF i > Len(ranked) \/ w.broke THEN w
    ELSE Walk(WalkStep(w, ranked[i], node_properties, cfg), ranked, i + 1,
              node_properties, cfg)

\* what the two loops of lines 426-458 carry: the lists and self.id_to_type
Pulled(w, types) ==
    [search_list |-> w.search_list, unique_search_list |-> w.unique_search_list,
     id_to_type |-> types]

\* the type-map entry an appended node gets: the type the second batch query
\* found, when there is one; the default when the query returned no row for
\* the node; in both cases only if the map has no entry yet
TypeEntry(types, node, additional_properties, default) ==
    IF node \in DOMAIN additional_properties
    THEN IF additional_properties[node].type # NoneValue /\ node \notin DOMAIN types
         THEN [n \in DOMAIN types \cup {node} |->
                  IF n = node THEN additional_properties[node].type ELSE types[n]]
         ELSE types
    ELSE IF node \notin DOMAIN types
         THEN [n \in DOMAIN types \cup {node} |-> IF n = node THEN default ELSE types[n]]
         ELSE types

\* a pull that appends the node whether the unique set holds it or not
PullNode_unchecked(p, node, additional_properties, default) ==
    [search_list |-> Append(p.search_list, node),
     unique_search_list |-> p.unique_search_list \cup {node},
     id_to_type |-> p.id_to_type]

\* one node of lines 431-442 and 448-458: appended unless the unique set holds it
PullNode(p, node, additional_properties, default) ==
    IF node \in p.unique_search_list THEN p
    ELSE [search_list |-> Append(p.search_list, node),
          unique_search_list |-> p.unique_search_list \cup {node},
          id_to_type |-> TypeEntry(p.id_to_type, node, additional_properties, default)]

RECURSIVE PullAll(_, _, _, _)
PullAll(p, node_list, additional_properties, default) ==
    IF node_list = <<>> THEN p
    ELSE PullAll(PullNode(p, Head(node_list), additional_properties, default),
                 Tail(node_list), additional_properties, default)

\* the attributes of the accepted entities, entity by entity, and the related
\* nodes of the accepted titles (a title without one gives nothing)
RECURSIVE AttributesOf(_, _)
AttributesOf(entity_list, node_properties) ==
    IF entity_list = <<>> THEN <<>>
    ELSE PropertiesGet(node_properties, Head(entity_list)).attributes
             \o AttributesOf(Tail(entity_list), node_properties)

RECURSIVE RelatedOf(_, _)
RelatedOf(title_list, node_properties) ==
    IF title_list = <<>> THEN <<>>
    ELSE (IF PropertiesGet(node_properties, Head(title_list)).related_node = NoNode
          THEN <<>>
          ELSE <<PropertiesGet(node_properties, Head(title_list)).related_node>>)
             \o RelatedOf(Tail(title_list), node_properties)

\* lines 460-470: the relationship nodes get an entry of the type map
RelationshipEntries(types, relationship_list) ==
    [n \in DOMAIN types \cup {relationship_list[i] : i \in 1..Len(relationship_list)} |->
        IF n \in DOMAIN types THEN types[n] ELSE "relationship"]

\* the relationship_list of the walk of lines 383-416
walked_relationships(ranked, r, cfg, nodes) ==
    LET node_ids_to_check == {ranked[i] : i \in {j \in 1..Len(ranked) : ~InList(r.search_list, ranked[j])}}
    IN  Walk(WalkStart(r), ranked, 1, get_batch_node_properties(nodes, node_ids_to_check),
             cfg).relationship_list

\* neo4j_post_process_top_k(weighted_nodes, retrieval) in a process that lists
\* set(relationship_list) as set_list: the retrieval and self.id_to_type at
\* the return, and the locals of the walk
neo4j_post_process_top_k(ranked, r, types, cfg, nodes, set_list) ==
    LET node_ids_to_check == {ranked[i] : i \in {j \in 1..Len(ranked) : ~InList(r.search_list, ranked[j])}}
    IN  IF node_ids_to_check = {}
        THEN [retrieval |-> r, id_to_type |-> types, walk |-> WalkStart(r), returned_early |-> TRUE]
        ELSE LET node_properties == get_batch_node_properties(nodes, node_ids_to_check)
                 w == Walk(WalkStart(r), ranked, 1, node_properties, cfg)
                 attributes == AttributesOf(w.entity_list, node_properties)
                 related == RelatedOf(w.high_level_element_title_list, node_properties)
                 additional_properties ==
                     get_batch_node_properties(nodes,
                         {attributes[i] : i \in 1..Len(attributes)}
                             \cup {related[i] : i \in 1..Len(related)})
                 p1 == PullAll(Pulled(w, types), attributes, additional_properties, "attribute")
                 p2 == PullAll(p1, related, additional_properties, "high_level_element")
             IN  [retrieval |-> [search_list |-> p2.search_list,
                                 unique_search_list |-> p2.unique_search_list,
                                 relationship_list |-> set_list],
                  id_to_type |-> RelationshipEntries(p2.id_to_type, set_list),
                  walk |-> w, returned_early |-> FALSE]

MaxEnode == 2        \* the largest cap on entities a configuration holds
MaxRnode == 2        \* on relationships
MaxHnode == 1        \* on high-level-element titles
MaxCrossNode == 1    \* on nodes of any other type
MaxQueries == 2      \* queries answered by one NodeSearch

SearchConfigs ==
    [Enode : 0..MaxEnode, Rnode : 0..MaxRnode, Hnode : 0..MaxHnode,
     cross_node : 0..MaxCrossNode]

\* the types of the ranked nodes: the three the expansion knows and one other
RankedTypes == {"entity", "relationship", "high_level_element_title", "text"}

\* a ranked node of the store: an entity has attributes, a title a related node
RankedNode(id, type, attributes, related_node) ==
    StoreNode(id, id, NoUser, type,
              IF type = "entity" THEN attributes ELSE <<>>,
              IF type = "high_level_element_title" THEN related_node ELSE NoNode)

\* the stores the queries run on: the seed 1 next to the nodes 2 and 3, node 4
\* behind node 3 (so 2 and 4 have the same score and 3 a lower one); the
\* attribute node 5 with a type, node 6 with none, and node 7 named by
\* properties but not in the store
SearchNodes(t2, t3, t4) ==
    { StoreNode(1, 1, NoUser, "entity", <<>>, NoNode),
      RankedNode(2, t2, <<5, 6>>, 6),
      RankedNode(3, t3, <<5>>, 5),
      RankedNode(4, t4, <<7>>, 7),
      StoreNode(5, 5, NoUser, "attribute", <<>>, NoNode),
      StoreNode(6, 6, NoUser, NoneValue, <<>>, NoNode) }

SearchEdges == {StoreEdge(1, 1, 2), StoreEdge(2, 1, 3), StoreEdge(3, 3, 4)}

\* the seeds the vector search gives: node 1 alone, or with the nodes 3 and 4
\* (the seeds a query starts from are ranked when other seeds reach them)
SeedLists == {<<1>>, <<1, 3, 4>>}

\* Retrieval as a query starts it on the seeds
NewRetrieval(seeds) ==
    [search_list |-> seeds, unique_search_list |-> {seeds[i] : i \in 1..Len(seeds)},
     relationship_list |-> <<>>]

NoWalk == [walk |-> WalkStart(NewRetrieval(<<>>)), before |-> <<>>, types_before |-> <<>>,
           returned_early |-> FALSE]

\* neo4j_init: the type map is loaded from the store as it is at that time;
\* node 6 is in the store by then, or is added before the first query
SearchInit ==
    /\ \E t2, t3, t4 \in RankedTypes : neo4j_nodes = SearchNodes(t2, t3, t4)
    /\ neo4j_edges = SearchEdges
    /\ \E late \in {{}, {6}} :
           id_to_type = get_all_node_types({n \in neo4j_nodes : n.id \notin late})
    /\ search_config \in SearchConfigs
    /\ seed_list \in SeedLists
    /\ weighted_nodes = <<>>
    /\ retrieval = NewRetrieval(seed_list)
    /\ post_process = NoWalk
    /\ search_phase = "query"
    /\ answers = <<>>

\* graph_search(personalization): the store answers the ranking query
GraphSearch ==
    /\ search_phase = "query"
    /\ \E rows \in pagerank_subgraph(neo4j_nodes, neo4j_edges, seed_list) :
           weighted_nodes' = neo4j_graph_search(neo4j_nodes, rows)
    /\ search_phase' = "ranked"
    /\ UNCHANGED <<id_to_type, search_config, seed_list, retrieval, post_process, answers>>
    /\ UNCHANGED storeVars
    /\ UNCHANGED exceptSearch

\* post_process_top_k(weighted_nodes, retrieval); list(set(relationship_list))
\* comes in an order of the process's hash seed
PostProcess ==
    /\ search_phase = "ranked"
    /\ \E set_list \in Orderings(LET relationship_list ==
                                       walked_relationships(weighted_nodes, retrieval,
                                                            search_config, neo4j_nodes)
                                   IN  {relationship_list[i] :
                                           i \in 1..Len(relationship_list)}) :
           LET out == neo4j_post_process_top_k(weighted_nodes, retrieval, id_to_type,
                                               search_config, neo4j_nodes, set_list)
           IN  /\ retrieval' = out.retrieval
               /\ id_to_type' = out.id_to_type
               /\ post_process' = [walk |-> out.walk, before |-> retrieval.search_list,
                                   types_before |-> id_to_type,
                                   returned_early |-> out.returned_early]
               /\ answers' = Append(answers,
                                    [search_list |-> out.retrieval.search_list,
                                     relationship_list |-> out.retrieval.relationship_list])
    /\ search_phase' = "expanded"
    /\ UNCHANGED <<search_config, seed_list, weighted_nodes>>
    /\ UNCHANGED storeVars
    /\ UNCHANGED exceptSearch

\* the next query on the same seeds
NewQuery ==
    /\ search_phase = "expanded"
    /\ Len(answers) < MaxQueries
    /\ retrieval' = NewRetrieval(seed_list)
    /\ weighted_nodes' = <<>>
    /\ search_phase' = "query"
    /\ UNCHANGED <<id_to_type, search_config, seed_list, post_process, answers>>
    /\ UNCHANGED storeVars
    /\ UNCHANGED exceptSearch

SearchNext == GraphSearch \/ PostProcess \/ NewQuery

\* ------------------------------------------------------------------------
\* The Neo4j store: Neo4jStorage, and the callers that persist a graph
\* (storage/neo4j_storage.py, graph_pipeline.py save_graph, api/services.py)
\* ------------------------------------------------------------------------

StoreUsers == {"u1", "u2"}

MaxStoreCalls == 3   \* calls on the store

\* a networkx graph: the type of each node id, and the edges as pairs
NxGraph(nodes, edges) == [nodes |-> nodes, edges |-> edges]

NoGraph == NxGraph(<<>>, {})

\* the graphs a build hands over; a hash id has one type in all of them
StoreGraphs ==
    { NxGraph((1 :> "entity") @@ (2 :> "semantic_unit"), {<<1, 2>>}),
      NxGraph((1 :> "entity") @@ (2 :> "semantic_unit") @@ (3 :> "entity"),
              {<<1, 2>>, <<3, 2>>}) }

StoreIds == {1, 2, 3}

\* the identity the database gives to what the call number `call` creates
NodeEid(call, id) == call * 10 + id
EdgeEid(call, source, target) == (call * 100 + source) * 100 + target

\* MATCH (n:Node {user_id: $user_id}), and MATCH (n:Node) when the caller
\* gave no user_id
MatchUser(nodes, user_id) ==
    IF user_id # NoUser THEN {n \in nodes : n.user_id = user_id} ELSE nodes

\* MATCH (n:Node {id: $id, user_id: $user_id}) / MATCH (n:Node {id: $id})
MatchId(nodes, id, user_id) == {n \in MatchUser(nodes, user_id) : n.id = id}

NodeAt(nodes, eid) == CHOOSE n \in nodes : n.eid = eid

\* clear_database: DETACH DELETE of the matched nodes; with no user_id the
\* pattern is (n), every node
clear_database(nodes, edges, user_id) ==
    LET deleted == {n.eid : n \in MatchUser(nodes, user_id)}
    IN  [nodes |-> {n \in nodes : n.eid \notin deleted},
         edges |-> {e \in edges : e.source \notin deleted /\ e.target \notin deleted}]

\* _create_nodes_batch: CREATE, one new node for each node of the graph
create_nodes_batch(nodes, graph, user_id, call) ==
    nodes \cup {StoreNode(NodeEid(call, id), id, user_id, graph.nodes[id], <<>>, NoNode) :
                    id \in DOMAIN graph.nodes}

\* _create_relationships_batch: for each edge of the graph, CREATE one
\* relationship for each pair of a matched source and a matched target
create_relationships_batch(nodes, edges, graph, user_id, call) ==
    edges \cup
    UNION {{StoreEdge(EdgeEid(call, a.eid, b.eid), a.eid, b.eid) :
                a \in MatchId(nodes, e[1], user_id), b \in MatchId(nodes, e[2], user_id)} :
            e \in graph.edges}

\* Neo4jStorage.save_graph: the nodes, then the relationships
storage_save_graph(nodes, edges, graph, user_id, call) ==
    LET created == create_nodes_batch(nodes, graph, user_id, call)
    IN  [nodes |-> created,
         edges |-> create_relationships_batch(created, edges, graph, user_id, call)]

\* Neo4jStorage.load_graph: add_node keeps one node for an id, add_edge one
\* undirected edge for a pair
storage_load_graph(nodes, edges, user_id) ==
    LET matched == MatchUser(nodes, user_id)
        ids == {n.id : n \in matched}
    IN  NxGraph([id \in ids |-> (CHOOSE n \in matched : n.id = id).type],
                {{NodeAt(nodes, e.source).id, NodeAt(nodes, e.target).id} :
                     e \in {x \in edges : /\ NodeAt(nodes, x.source) \in matched
                                          /\ NodeAt(nodes, x.target) \in matched}})

\* get_neighbors: one row for each match of (n {id})-[:CONNECTED_TO]-(neighbor),
\* in either direction; the ids of the rows, and their number
get_neighbors(nodes, edges, id, user_id) ==
    LET rows == {<<e.eid, n.eid>> : e \in edges, n \in MatchId(nodes, id, user_id)}
        hits == {r \in rows :
                    LET e == CHOOSE x \in edges : x.eid = r[1]
                    IN  /\ Touches(e, r[2])
                        /\ NodeAt(nodes, OtherEnd(e, r[2])) \in MatchUser(nodes, user_id)}
    IN  [ids |-> {NodeAt(nodes, OtherEnd(CHOOSE x \in edges : x.eid = r[1], r[2])).id :
                      r \in hits},
         rows |-> Cardinality(hits)]

\* get_statistics
get_statistics(nodes, edges, user_id) ==
    LET matched == MatchUser(nodes, user_id)
        counted == {e \in edges : /\ NodeAt(nodes, e.source) \in matched
                                  /\ NodeAt(nodes, e.target) \in matched}
    IN  [total_nodes |-> Cardinality(matched),
         total_relationships |-> Cardinality(counted),
         node_types |-> [t \in {n.type : n \in matched} |->
                            Cardinality({n \in matched : n.type = t})]]

NoResult == "none"

\* the record of a call: who it was made for, what it was given, what it
\* returned, and whether it repeats the call before it
StoreOp(op, user_id, graph, full_sync, result) ==
    [op |-> op, user_id |-> user_id, graph |-> graph, full_sync |-> full_sync,
     result |-> result,
     again |-> /\ store_op.op = op
               /\ store_op.user_id = user_id
               /\ store_op.graph = graph
               /\ store_op.full_sync = full_sync]

NoStoreOp ==
    [op |-> "none", user_id |-> NoUser, graph |-> NoGraph, full_sync |-> FALSE,
     result |-> NoResult, again |-> FALSE]

StoreBecomes(st) == neo4j_nodes' = st.nodes /\ neo4j_edges' = st.edges

StoreCall(op) ==
    /\ store_calls < MaxStoreCalls
    /\ store_calls' = store_calls + 1
    /\ store_op' = op
    /\ UNCHANGED tripVars
    /\ UNCHANGED searchVars
    /\ UNCHANGED exceptSearch

\* Neo4jStorage.save_graph(graph, user_id = u)
SaveGraphFor(u, graph) ==
    /\ StoreBecomes(storage_save_graph(neo4j_nodes, neo4j_edges, graph, u, store_calls + 1))
    /\ StoreCall(StoreOp("save_graph", u, graph, FALSE, NoResult))

\* Neo4jStorage.clear_database(user_id = u)
ClearDatabaseFor(u) ==
    /\ StoreBecomes(clear_database(neo4j_nodes, neo4j_edges, u))
    /\ StoreCall(StoreOp("clear_database", u, NoGraph, FALSE, NoResult))

\* Neo4jStorage.load_graph(user_id = u)
LoadGraphFor(u) ==
    /\ UNCHANGED <<neo4j_nodes, neo4j_edges>>
    /\ StoreCall(StoreOp("load_graph", u, NoGraph, FALSE,
                         storage_load_graph(neo4j_nodes, neo4j_edges, u)))

\* Neo4jStorage.get_neighbors(node_id, user_id = u)
GetNeighborsFor(u, node_id) ==
    /\ UNCHANGED <<neo4j_nodes, neo4j_edges>>
    /\ StoreCall(StoreOp("get_neighbors", u, NoGraph, FALSE,
                         get_neighbors(neo4j_nodes, neo4j_edges, node_id, u)))

\* Neo4jStorage.get_statistics(user_id = u)
GetStatisticsFor(u) ==
    /\ UNCHANGED <<neo4j_nodes, neo4j_edges>>
    /\ StoreCall(StoreOp("get_statistics", u, NoGraph, FALSE,
                         get_statistics(neo4j_nodes, neo4j_edges, u)))

\* Graph_pipeline.save_graph at the end of the build of the user u (the
\* user_id of its config), with use_neo4j_storage: clear_database() and
\* save_graph(self.G), both without a user_id
PipelineSaveGraph(u, graph) ==
    /\ LET cleared == clear_database(neo4j_nodes, neo4j_edges, NoUser)
       IN  StoreBecomes(storage_save_graph(cleared.nodes, cleared.edges, graph, NoUser,
                                           store_calls + 1))
    /\ StoreCall(StoreOp("build", u, graph, FALSE, NoResult))

\* Neo4jSyncService.sync_to_neo4j(full_sync) of the service initialized for
\* the user u, on the graph of the pickle: a full sync clears first, both
\* save without a user_id; the result holds the statistics of the whole store
SyncToNeo4j(u, full_sync, graph) ==
    LET start == IF full_sync
                 THEN clear_database(neo4j_nodes, neo4j_edges, NoUser)
                 ELSE [nodes |-> neo4j_nodes, edges |-> neo4j_edges]
        saved == storage_save_graph(start.nodes, start.edges, graph, NoUser, store_calls + 1)
    IN  /\ StoreBecomes(saved)
        /\ StoreCall(StoreOp("sync_to_neo4j", u, graph, full_sync,
                             get_statistics(saved.nodes, saved.edges, NoUser)))

\* POST /neo4j/sync: the endpoint passes user_id to sync_to_neo4j, which has
\* no such parameter; the call raises TypeError before it reaches the store
SyncEndpoint(u, full_sync) ==
    /\ UNCHANGED <<neo4j_nodes, neo4j_edges>>
    /\ StoreCall(StoreOp("POST /neo4j/sync", u, NoGraph, full_sync, "TypeError"))

\* ------------------------------------------------------------------------
\* storage/neo4j_storage.py: the attribute values on their way to the
\* database and back
\* ------------------------------------------------------------------------

\* A Python value: t its type; s the text of a str, the digits of an int,
\* str() of a bool; items the elements of a list, the pairs of a dict (a
\* pair holds its key and its value)
Value(t, s, items) == [t |-> t, s |-> s, items |-> items]
AttrStr(s) == Value("str", s, <<>>)
AttrInt(digits) == Value("int", digits, <<>>)
AttrTrue == Value("bool", <<"T","r","u","e">>, <<>>)
AttrFalse == Value("bool", <<"F","a","l","s","e">>, <<>>)
AttrNone == Value("none", <<"N","o","n","e">>, <<>>)
AttrList(items) == Value("list", <<>>, items)
AttrPair(key, value) == Value("pair", <<>>, <<key, value>>)
AttrDict(pairs) == Value("dict", <<>>, pairs)
JsonFail == Value("JSONDecodeError", <<>>, <<>>)

Quote == "\""
DigitChars == {"0","1","2","3","4","5","6","7","8","9"}

\* the JSON text of a scalar, and of a dict key (json.dumps writes a key
\* that is an int or a bool as the string of its JSON text)
JsonScalar(v) ==
    IF v.t = "str" THEN <<Quote>> \o v.s \o <<Quote>>
    ELSE IF v.t = "bool" THEN Lower(v.s)
    ELSE IF v.t = "none" THEN <<"n","u","l","l">>
    ELSE v.s
JsonKey(k) == IF k.t = "str" THEN JsonScalar(k) ELSE <<Quote>> \o JsonScalar(k) \o <<Quote>>

RECURSIVE json_dumps(_)
\* json.dumps(value) with its default separators ', ' and ': '
json_dumps(v) ==
    IF v.t = "list"
    THEN <<"[">> \o JoinWith(<<",", " ">>, [i \in 1..Len(v.items) |-> json_dumps(v.items[i])])
                 \o <<"]">>
    ELSE IF v.t = "dict"
    THEN <<"{">> \o JoinWith(<<",", " ">>,
                             [i \in 1..Len(v.items) |->
                                 JsonKey(v.items[i].items[1]) \o <<":", " ">>
                                     \o json_dumps(v.items[i].items[2])])
                 \o <<"}">>
    ELSE JsonScalar(v)

IsJsonInt(s) ==
    /\ Len(s) > 0
    /\ \A i \in 1..Len(s) : s[i] \in DigitChars
    /\ Len(s) > 1 => s[1] # "0"

IsJsonString(s) ==
    /\ Len(s) >= 2
    /\ s[1] = Quote
    /\ s[Len(s)] = Quote
    /\ \A i \in 2..(Len(s) - 1) : s[i] \notin {Quote, "\\"}

Bracketed(s, open, close) == Len(s) >= 2 /\ s[1] = open /\ s[Len(s)] = close
Inner(s) == SubSeq(s, 2, Len(s) - 1)

\* json.loads of the text of a scalar
JsonLoadScalar(s) ==
    IF s = <<"t","r","u","e">> THEN AttrTrue
    ELSE IF s = <<"f","a","l","s","e">> THEN AttrFalse
    ELSE IF s = <<"n","u","l","l">> THEN AttrNone
    ELSE IF IsJsonInt(s) THEN AttrInt(s)
    ELSE IF IsJsonString(s) THEN AttrStr(Inner(s))
    ELSE JsonFail

RECURSIVE json_loads(_)
\* json.loads(text), for texts whose strings hold no comma, colon, bracket
\* or escape: blanks around a value are skipped, and any text that is not
\* JSON raises JSONDecodeError
json_loads(text) ==
    LET s == Strip(text)
    IN  IF Bracketed(s, "[", "]")
        THEN IF Strip(Inner(s)) = <<>> THEN AttrList(<<>>)
             ELSE LET parts == SplitOn(Inner(s), ",")
                      vals == [i \in 1..Len(parts) |-> json_loads(parts[i])]
                  IN  IF \E i \in 1..Len(vals) : vals[i] = JsonFail
                      THEN JsonFail
                      ELSE AttrList(vals)
        ELSE IF Bracketed(s, "{", "}")
        THEN IF Strip(Inner(s)) = <<>> THEN AttrDict(<<>>)
             ELSE LET parts == SplitOn(Inner(s), ",")
                      kv == [i \in 1..Len(parts) |-> SplitOn(parts[i], ":")]
                  IN  IF \E i \in 1..Len(kv) :
                             \/ Len(kv[i]) # 2
                             \/ ~IsJsonString(Strip(kv[i][1]))
                             \/ json_loads(kv[i][2]) = JsonFail
                      THEN JsonFail
                      ELSE AttrDict([i \in 1..Len(kv) |->
                                        AttrPair(AttrStr(Inner(Strip(kv[i][1]))),
                                                 json_loads(kv[i][2]))])
        ELSE JsonLoadScalar(s)

\* _serialize_value
serialize_value(value) ==
    IF value.t \in {"list", "dict", "set"} THEN AttrStr(json_dumps(value))
    ELSE value

\* _deserialize_value: every str goes through json.loads, and stays as it
\* is only when that raises
deserialize_value(value) ==
    IF value.t = "str" /\ json_loads(value.s) # JsonFail
    THEN json_loads(value.s)
    ELSE value

\* the attribute dict of a node or an edge, each value through f
EachValue(f(_), attrs) == [k \in DOMAIN attrs |-> f(attrs[k])]

\* the attribute values of the graphs saved
AttrValues ==
    { AttrStr(<<"e","n","t","i","t","y">>),
      AttrStr(<<"1","2">>),
      AttrStr(<<"t","r","u","e">>),
      AttrStr(<<"[","1","]">>),
      AttrStr(<<Quote,"a",Quote>>),
      AttrStr(<<"n","u","l","l">>),
      AttrStr(<<>>),
      AttrInt(<<"1","2">>),
      AttrTrue,
      AttrList(<<AttrInt(<<"1">>), AttrStr(<<"a">>)>>),
      AttrList(<<>>),
      AttrDict(<<AttrPair(AttrStr(<<"k">>), AttrInt(<<"1">>))>>),
      AttrDict(<<AttrPair(AttrInt(<<"1">>), AttrStr(<<"a">>))>>) }

\* a graph of two nodes and the edge between them
AttrGraph(label, weight) ==
    [nodes |-> (1 :> [type |-> AttrStr(<<"e","n","t","i","t","y">>), label |-> label])
               @@ (2 :> [type |-> AttrStr(<<"e","n","t","i","t","y">>)]),
     edges |-> ({1, 2} :> [weight |-> weight])]

NoAttrGraph == [nodes |-> <<>>, edges |-> <<>>]

TripInit ==
    /\ \E label \in AttrValues, weight \in AttrValues : nx_graph = AttrGraph(label, weight)
    /\ neo4j_props = NoAttrGraph
    /\ loaded_graph = NoAttrGraph
    /\ trip = "new"

TripIdle ==
    /\ nx_graph = NoAttrGraph
    /\ neo4j_props = NoAttrGraph
    /\ loaded_graph = NoAttrGraph
    /\ trip = "idle"

\* Neo4jStorage.save_graph(graph) on the empty database: one :Node for each
\* node and one CONNECTED_TO for each edge, with the serialized properties
TripSave ==
    /\ trip = "new"
    /\ neo4j_props' =
           [nodes |-> [id \in DOMAIN nx_graph.nodes |->
                          EachValue(serialize_value, nx_graph.nodes[id])],
            edges |-> [e \in DOMAIN nx_graph.edges |->
                          EachValue(serialize_value, nx_graph.edges[e])]]
    /\ trip' = "saved"
    /\ UNCHANGED <<nx_graph, loaded_graph>>
    /\ UNCHANGED <<neo4j_nodes, neo4j_edges, store_op, store_calls>>
    /\ UNCHANGED searchVars
    /\ UNCHANGED exceptSearch

\* Neo4jStorage.load_graph(): add_node and add_edge with the deserialized
\* properties
TripLoad ==
    /\ trip = "saved"
    /\ loaded_graph' =
           [nodes |-> [id \in DOMAIN neo4j_props.nodes |->
                          EachValue(deserialize_value, neo4j_props.nodes[id])],
            edges |-> [e \in DOMAIN neo4j_props.edges |->
                          EachValue(deserialize_value, neo4j_props.edges[e])]]
    /\ trip' = "loaded"
    /\ UNCHANGED <<nx_graph, neo4j_props>>
    /\ UNCHANGED <<neo4j_nodes, neo4j_edges, store_op, store_calls>>
    /\ UNCHANGED searchVars
    /\ UNCHANGED exceptSearch

TripNext == TripSave \/ TripLoad

StoreNext ==
    \/ \E u \in StoreUsers, graph \in StoreGraphs : SaveGraphFor(u, graph)
    \/ \E u \in StoreUsers : ClearDatabaseFor(u)
    \/ \E u \in StoreUsers : LoadGraphFor(u)
    \/ \E u \in StoreUsers, node_id \in StoreIds : GetNeighborsFor(u, node_id)
    \/ \E u \in StoreUsers : GetStatisticsFor(u)
    \/ \E u \in StoreUsers, graph \in StoreGraphs : PipelineSaveGraph(u, graph)
    \/ \E u \in StoreUsers, full_sync \in BOOLEAN, graph \in StoreGraphs :
           SyncToNeo4j(u, full_sync, graph)
    \/ \E u \in StoreUsers, full_sync \in BOOLEAN : SyncEndpoint(u, full_sync)

\* no call on the store yet
NoStoreCalls == store_op = NoStoreOp /\ store_calls = 0 /\ TripIdle

\* a new, empty database
StoreInit == neo4j_nodes = {} /\ neo4j_edges = {} /\ NoStoreCalls

\* no NodeSearch and an empty store
StoreIdle == StoreInit
SearchIdle ==
    /\ id_to_type = <<>>
    /\ search_config = [Enode |-> 0, Rnode |-> 0, Hnode |-> 0, cross_node |-> 0]
    /\ seed_list = <<>>
    /\ weighted_nodes = <<>>
    /\ retrieval = NewRetrieval(<<>>)
    /\ post_process = NoWalk
    /\ search_phase = "idle"
    /\ answers = <<>>

\* ------------------------------------------------------------------------
\* Specifications
\* ------------------------------------------------------------------------

\* no processing log yet
NoLog == text_decomposition_file = <<>>

InitErr == ErrInit /\ ClientInit /\ GraphIdle /\ NoLog /\ TextIdle /\ RelIdle /\ PlainConfig
    /\ StoreIdle /\ SearchIdle

\* the decorated call alone
SpecErr == InitErr /\ [][ErrNext]_vars

InitClient == ClientInit /\ ErrInit /\ GraphIdle /\ NoLog /\ TextIdle /\ RelIdle /\ AnyConfig
    /\ StoreIdle /\ SearchIdle

\* the client's callers and the clock
SpecClient == InitClient /\ [][ClientNext]_vars

InitClientFair == ClientInit /\ ErrInit /\ GraphIdle /\ NoLog /\ TextIdle /\ RelIdle /\ PlainConfig
    /\ StoreIdle /\ SearchIdle

\* the event loop runs every task that can run: time passes, a waiter gets
\* the free semaphore, a sleep that is over ends, and (the proviso of the
\* claim) a backend call that is in flight returns or raises
ClientFairness ==
    /\ WF_vars(Tick)
    /\ \A c \in AsyncCallers :
           /\ WF_vars(AsyncEnter(c))
           /\ WF_vars(AsyncWake(c))
           /\ WF_vars(AsyncReturn(c) \/ AsyncRaise(c))

\* the client's callers under a fair event loop and a backend that answers
SpecClientFair == InitClientFair /\ [][ClientNext]_vars /\ ClientFairness

InitGraph == GraphInit /\ ErrInit /\ ClientInit /\ TextIdle /\ RelIdle /\ PlainConfig
    /\ StoreIdle /\ SearchIdle

\* the construction runs of the graph stage
SpecGraph == InitGraph /\ [][GraphNext]_vars

\* the text stage on the log it finds
FoundLog == text_decomposition_file \in FoundLogs

InitText == TextInit /\ FoundLog /\ ErrInit /\ ClientInit /\ GraphIdle /\ RelIdle /\ PlainConfig
    /\ StoreIdle /\ SearchIdle

\* the runs of the text stage
SpecText == InitText /\ [][TextNext]_vars

InitRel == RelInit /\ ErrInit /\ ClientInit /\ GraphIdle /\ NoLog /\ TextIdle /\ PlainConfig
    /\ StoreIdle /\ SearchIdle

\* a Relationship built from a tuple and added to
SpecRel == InitRel /\ [][RelNext]_vars

InitSave == TextInit /\ NoLog /\ ErrInit /\ ClientInit /\ GraphIdle /\ RelIdle /\ PlainConfig
    /\ StoreIdle /\ SearchIdle

\* request_save called on a text_pipline at rest
SpecSave == InitSave /\ [][SaveNext]_vars

InitSearch ==
    SearchInit /\ NoStoreCalls /\ ErrInit /\ ClientInit /\ GraphIdle /\ NoLog /\ TextIdle
    /\ RelIdle /\ PlainConfig

\* the queries of a NodeSearch that ranks and expands in the store
SpecSearch == InitSearch /\ [][SearchNext]_vars

InitStore ==
    StoreInit /\ SearchIdle /\ ErrInit /\ ClientInit /\ GraphIdle /\ NoLog /\ TextIdle
    /\ RelIdle /\ PlainConfig

\* the calls on one database, made for two users
SpecStore == InitStore /\ [][StoreNext]_vars

InitTrip ==
    /\ TripInit /\ neo4j_nodes = {} /\ neo4j_edges = {} /\ store_op = NoStoreOp
    /\ store_calls = 0
    /\ SearchIdle /\ ErrInit /\ ClientInit /\ GraphIdle /\ NoLog /\ TextIdle
    /\ RelIdle /\ PlainConfig

\* one graph saved to the empty database and loaded back
SpecTrip == InitTrip /\ [][TripNext]_vars

\* ------------------------------------------------------------------------
\* Claims on the decorated call
\* ------------------------------------------------------------------------

\* the failure rule as the specification words it, on the response in hand
MatchesFailureRule(text) ==
    \/ Len(text) <= 99
    \/ \E w \in { <<"e","r","r","o","r">>, <<"e","x","c","e","p","t","i","o","n">>,
                  <<"f","a","i","l","e","d">>,
                  <<"a","u","t","h","e","n","t","i","c","a","t","i","o","n">>,
                  <<"r","a","t","e"," ","l","i","m","i","t">>,
                  <<"a","p","i"," ","k","e","y">>,
                  <<"u","n","a","u","t","h","o","r","i","z","e","d">>,
                  <<"f","o","r","b","i","d","d","e","n">> } :
           \E i \in 1..Len(text) :
               /\ i + Len(w) - 1 <= Len(text)
               /\ \A j \in 1..Len(w) : LowerChar(text[i + j - 1]) = w[j]

\* the caller got the backend's response as the value of the call
NormalReturn ==
    errOut.kind = "return" /\ ~errOut.cached /\ errOut.value = errCall.response

\* C4: every text response of the async call path that matches the failure
\* rule is appended to the error cache when cache_path and metadata are
\* given, and raised when cache_path or metadata is absent; it is never
\* returned to the caller as a normal response.
C4_FailureCachedOrRaised ==
    (errCall.path = "async" /\ errCall.response.tag = "str"
        /\ MatchesFailureRule(errCall.response.text))
    => IF errCall.cache_path = "given" /\ errCall.meta_data.given
       THEN /\ errOut.cached
            /\ Len(errCache) > 0
            /\ errCache[Len(errCache)] = LLM_store(errCall.input, errCall.meta_data)
       ELSE errOut.kind = "raise"

\* C7: with a cache path given, a text response is a failure exactly when it
\* matches the rule; a keyword-free response of 99 characters is a failure
\* and one of 100 characters is returned as it is, on the async path and on
\* the sync path alike.
C7_ClassificationBoundary ==
    (errCall.path \in {"async", "sync"} /\ errCall.response.tag = "str"
        /\ errCall.cache_path = "given")
    => /\ MatchesFailureRule(errCall.response.text) <=> ~NormalReturn
       /\ errCall.response.text = Plain99 => ~NormalReturn
       /\ errCall.response.text = Plain100 => NormalReturn

\* ------------------------------------------------------------------------
\* Claims on the client
\* ------------------------------------------------------------------------

\* C5: any two consecutive backend dispatches of one client are at least the
\* configured delay apart, for async callers, for sync callers in different
\* threads and for a mix of both.
C5_DispatchesPaced ==
    \A i \in 1..(Len(dispatches) - 1) : dispatches[i + 1] - dispatches[i] >= Delay

\* ------------------------------------------------------------------------
\* Claims on the graph stage
\* ------------------------------------------------------------------------

\* C1: the hash_id of a Relationship depends only on the unordered pair of
\* its endpoint hashes, so two relationships of the pipeline with the same
\* endpoints have the same hash_id and the lookup by hash_id finds the
\* existing one.
C1_HashOfUnorderedPair ==
    \A i, j \in 1..Len(relationship) :
        relationship[i].unique_relationship = relationship[j].unique_relationship
            => relationship[i].hash_id = relationship[j].hash_id

\* the weight a node had when the run loaded the graph, 0 with no such node
LoadedWeight(h) ==
    IF has_node(load_graph(graph_file), h)
    THEN load_graph(graph_file).nodes[h].weight ELSE 0

CreatedUnits == semantic_units \o entities \o relationship_nodes

\* C2: for add_semantic_unit and add_entities, the first occurrence of a hash
\* id creates one node of weight 1, every later occurrence adds exactly 1 to
\* the weight and creates no node, and no hash id gets two nodes: during a
\* run the weight of a node is what it was before its first occurrence (0,
\* or that of the node loaded or made by add_relationships) plus the number
\* of occurrences, and at most one unit was created for it.
C2_CreateOrIncrement ==
    phase = "building" =>
        \A h \in DOMAIN G.nodes \cup DOMAIN occurrences :
            /\ has_node(G, h)
            /\ G.nodes[h].weight =
                   LoadedWeight(h) + Occ(occurrences, h).by_relationship
                       + Occ(occurrences, h).direct
            /\ LoadedWeight(h) = 0 => Occ(occurrences, h).by_relationship <= 1
            /\ LoadedWeight(h) > 0 => Occ(occurrences, h).by_relationship = 0
            /\ Cardinality({i \in 1..Len(CreatedUnits) : CreatedUnits[i].hash_id = h})
                   = IF LoadedWeight(h) = 0 /\ G.nodes[h].type # "relationship"
                     THEN 1 ELSE 0

\* a hash id occurred three times in add_semantic_unit and add_entities and
\* its node, created by the first, has weight 3
C2_Witness ==
    /\ phase = "building"
    /\ \E h \in DOMAIN occurrences :
           /\ occurrences[h].direct = 3
           /\ occurrences[h].by_relationship = 0
           /\ LoadedWeight(h) = 0
           /\ G.nodes[h].weight = 3

\* C3: at the end of every construction run, the first or a later one, the
\* number of graph nodes of each type equals the number of records of that
\* type, so the count checks pass.
C3_CountsMatchAtEnd ==
    /\ (phase = "building" /\ AllTasksDone) => save_asserts_hold
    /\ phase # "assert_failed"

\* the one record of the end-to-end scenario
ScenarioOutput == <<Item(cS, <<cA, cB>>, <<RawArB>>)>>

\* the run on an empty graph of one record with the one output `Output` is over
ProcessedAlone(Output) ==
    /\ run = 1
    /\ Len(data) = 1
    /\ data[1].response.tag = "dict"
    /\ data[1].response.Output = Output
    /\ AllTasksDone

\* C8: on an empty graph, one text unit with one output item (S, [A, B],
\* ['A, r, B']) gives 4 nodes, S of type semantic_unit, A and B of type
\* entity and one of type relationship, and 4 edges S-A, S-B, A-rel, rel-B,
\* every weight being 1.
C8_EndToEnd ==
    ProcessedAlone(ScenarioOutput) =>
        LET tid == data[1].text_hash_id
            s == Semantic_unit(cS, tid).hash_id
            a == Entity(cA, tid).hash_id
            b == Entity(cB, tid).hash_id
        IN  /\ Cardinality(DOMAIN G.nodes) = 4
            /\ {s, a, b} \subseteq DOMAIN G.nodes
            /\ Cardinality({s, a, b}) = 3
            /\ G.nodes[s] = [type |-> "semantic_unit", weight |-> 1]
            /\ G.nodes[a] = [type |-> "entity", weight |-> 1]
            /\ G.nodes[b] = [type |-> "entity", weight |-> 1]
            /\ \E r \in DOMAIN G.nodes \ {s, a, b} :
                   /\ G.nodes[r] = [type |-> "relationship", weight |-> 1]
                   /\ DOMAIN G.edges = {{s, a}, {s, b}, {a, r}, {r, b}}
            /\ Cardinality(DOMAIN G.edges) = 4
            /\ \A e \in DOMAIN G.edges : G.edges[e] = 1

C8_Witness == ProcessedAlone(ScenarioOutput) /\ Cardinality(DOMAIN G.edges) = 4

MergeOutput == <<Item(cS, <<cA, cB>>, <<RawArB, RawAsB>>)>>

\* C9: two raw triples with the same endpoints and different relation text
\* leave one relationship node and one relationship record, whose
\* raw_context is the first raw line, a tab and the second raw line, and the
\* two connecting edges are not duplicated: their weight is incremented.
C9_MergedRelationship ==
    ProcessedAlone(MergeOutput) =>
        /\ Len(relationship) = 1
        /\ CountOfType(G, "relationship") = 1
        /\ relationship[1].raw_context \in
               { <<"A", " ", "r", " ", "B", "\t", "A", " ", "s", " ", "B">>,
                 RawArB \o <<"\t">> \o RawAsB }
        /\ LET r == relationship[1].hash_id
               a == relationship[1].source.hash_id
               b == relationship[1].target.hash_id
           IN  /\ {{a, r}, {r, b}} \subseteq DOMAIN G.edges
               /\ G.edges[{a, r}] = 2
               /\ G.edges[{r, b}] = 2

RECURSIVE SumLen(_)
SumLen(items) ==
    IF items = <<>> THEN 0 ELSE Len(Head(items).relationships) + SumLen(Tail(items))

RECURSIVE RawRelationships(_)
\* the number of raw relationship strings in the structured records
RawRelationships(records) ==
    IF records = <<>> THEN 0
    ELSE (IF Head(records).response.tag = "dict"
          THEN SumLen(Head(records).response.Output) ELSE 0)
             + RawRelationships(Tail(records))

\* C10: every raw relationship string whose comma split does not give 3
\* fields is sent to reconstruction, and what is handed to Relationship(...)
\* always has 3 fields: the three values of a structured response, or the
\* original fields cut to the first 3 or padded with empty strings; no
\* fragment is dropped.
C10_ArityRepair ==
    /\ \A k \in 1..Len(handed) :
           LET e == handed[k]
           IN  /\ e.reconstructed <=> Len(e.fields) # 3
               /\ Len(e.tuple) = 3
               /\ \A i \in 1..3 :
                      e.tuple[i] =
                          IF e.reconstructed /\ e.response.tag = "dict"
                          THEN LET v == <<e.response.source, e.response.relationship,
                                          e.response.target>>[i]
                               IN  IF v.t = "missing" THEN PyStr(<<>>) ELSE v
                          ELSE IF i <= Len(e.fields) THEN PyStr(e.fields[i])
                               ELSE PyStr(<<>>)
    /\ (phase = "building" /\ AllTasksDone) => Len(handed) = RawRelationships(data)

\* a fragment of 4 fields and one of 2 fields were both repaired from a
\* response that is not structured
C10_Witness ==
    /\ \E k \in 1..Len(handed) :
           /\ handed[k].reconstructed
           /\ handed[k].response.tag # "dict"
           /\ Len(handed[k].fields) = 4
    /\ \E k \in 1..Len(handed) :
           /\ handed[k].reconstructed
           /\ handed[k].response.tag # "dict"
           /\ Len(handed[k].fields) = 2

RECURSIVE ProcessInOrder(_, _, _)
\* the object after graph_tasks ran on the records one after the other, none
\* of them suspending
ProcessInOrder(st, records, order) ==
    IF records = <<>> THEN st
    ELSE ProcessInOrder(IF Head(records).response.tag = "dict"
                        THEN Advance(st, Head(records), NewTask, order).st
                        ELSE st,
                        Tail(records), order)

Reverse(s) == [i \in 1..Len(s) |-> s[Len(s) + 1 - i]]

\* every raw relationship string of the records splits into 3 fields, so no
\* task asks for a reconstruction
NeedsNoReconstruction(records) ==
    \A i \in 1..Len(records) :
        records[i].response.tag = "dict" =>
            \A j \in 1..Len(records[i].response.Output) :
                \A k \in 1..Len(records[i].response.Output[j].relationships) :
                    Len(split_relationship(
                            records[i].response.Output[j].relationships[k])) = 3

\* C12: the graph (nodes, their types and weights, edges and their weights)
\* after a run on an empty graph is the same when the decomposition results
\* arrive and are processed in another order: here, in the reverse order.
C12_SameGraphForEveryOrder ==
    (run = 1 /\ phase = "building" /\ AllTasksDone /\ NeedsNoReconstruction(data))
        => G = ProcessInOrder(EmptyState, Reverse(data), set_order).G

\* the weight an edge had when the run loaded the graph, 0 with no such edge
LoadedEdgeWeight(e) ==
    IF e \in DOMAIN load_graph(graph_file).edges
    THEN load_graph(graph_file).edges[e] ELSE 0

\* C13: with the graph tasks of a run interleaved at the await of the
\* reconstruction call, no weight increment is lost (the weight of a node or
\* an edge is its weight at load plus the number of creations and increments
\* made on it) and nothing is created twice (one record per hash id in the
\* lists of units and of relationships, the lookup pointing at it).
C13_NoLostUpdate ==
    phase = "building" =>
        /\ \A e \in DOMAIN G.edges \cup DOMAIN edge_ops :
               /\ e \in DOMAIN G.edges
               /\ G.edges[e] = LoadedEdgeWeight(e)
                                   + (IF e \in DOMAIN edge_ops THEN edge_ops[e] ELSE 0)
        /\ \A h \in DOMAIN G.nodes :
               G.nodes[h].weight =
                   LoadedWeight(h) + Occ(occurrences, h).direct
                       + Occ(occurrences, h).by_relationship
        /\ \A i, j \in 1..Len(CreatedUnits) :
               CreatedUnits[i].hash_id = CreatedUnits[j].hash_id => i = j
        /\ \A i, j \in 1..Len(relationship) :
               relationship[i].hash_id = relationship[j].hash_id => i = j
        /\ DOMAIN relationship_lookup =
               {relationship[i].hash_id : i \in 1..Len(relationship)}
        /\ \A h \in DOMAIN relationship_lookup :
               relationship[relationship_lookup[h]].hash_id = h

\* a task is suspended in the reconstruction call while a later task of the
\* same text unit ran to its end, and an edge they share has weight 2
C13_Witness ==
    /\ phase = "building"
    /\ \E i, j \in 1..Len(tasks) :
           /\ i < j
           /\ tasks[i].pc = "await"
           /\ tasks[j].pc = "done"
           /\ data[j].response.tag = "dict"
           /\ data[i].text_hash_id = data[j].text_hash_id
    /\ \E e \in DOMAIN G.edges : G.edges[e] = 2 /\ edge_ops[e] = 2

\* ------------------------------------------------------------------------
\* Claims on the text stage
\* ------------------------------------------------------------------------

\* the records of text unit u that the graph stage applies: load_data takes
\* every line, graph_tasks applies the ones whose response is a dict
StructuredRecords(u) ==
    {i \in 1..Len(text_decomposition_file) :
        /\ text_decomposition_file[i].text_hash_id = u
        /\ text_decomposition_file[i].response.tag = "dict"}

InErrorCache(u) ==
    /\ LLM_error_cache.exists
    /\ \E i \in 1..Len(LLM_error_cache.content) :
           LLM_error_cache.content[i].meta_data = TextMeta(u)

\* C6: after any sequence of runs and reruns of the text stage, aborted ones
\* included, every text unit has a structured record in the processing log,
\* or an entry in the error cache, or is dispatched by the next run, and no
\* text unit has more than one structured record for the graph stage to
\* apply.
C6_ExactlyOnce ==
    stage = "rest" =>
        \A u \in texts_file :
            /\ Cardinality(StructuredRecords(u)) <= 1
            /\ \/ StructuredRecords(u) # {}
               \/ InErrorCache(u)
               \/ u \in increment(texts_file, text_decomposition_file)

\* ------------------------------------------------------------------------
\* Claims on the Relationship object
\* ------------------------------------------------------------------------

\* the last call was given a tuple with at least one item
CalledWithFields ==
    /\ rel_call.op \in {"__init__", "add"}
    /\ Len(rel_call.relationship_tuple) >= 1

\* the object's raw_context ends with a tab and the fields joined by spaces
RawContextEndsWith(fields) ==
    LET raw == rel_obj.it.raw_context
        tail == <<"\t">> \o JoinWith(<<" ">>, fields)
    IN  /\ Len(raw) > Len(tail)
        /\ SubSeq(raw, Len(raw) - Len(tail) + 1, Len(raw)) = tail

\* the object was built from, or added, the tuple of the last call with its
\* fields read as `fields`
TreatedAs(fields) ==
    IF rel_call.op = "__init__"
    THEN LET padded == IF Len(fields) < 3
                       THEN fields \o [i \in 1..(3 - Len(fields)) |-> <<>>]
                       ELSE fields
         IN  /\ rel_obj.it.relationship_tuple = padded
             /\ rel_obj.it.source = Entity(padded[1], <<"1">>)
             /\ rel_obj.it.target = Entity(padded[3], <<"1">>)
             /\ rel_obj.it.unique_relationship =
                    {Entity(padded[1], <<"1">>).hash_id, Entity(padded[3], <<"1">>).hash_id}
             /\ rel_obj.it.raw_context = JoinWith(<<" ">>, padded)
    ELSE RawContextEndsWith(fields)

\* C11 as stated: building a Relationship from a tuple, or adding one to it,
\* never raises, and every field that is None or not a string is joined and
\* hashed as the empty string.
C11_CoercedToEmpty ==
    CalledWithFields =>
        /\ rel_obj.kind = "object"
        /\ TreatedAs([i \in 1..Len(rel_call.relationship_tuple) |->
                         IF rel_call.relationship_tuple[i].t = "str"
                         THEN rel_call.relationship_tuple[i].s ELSE <<>>])

\* C11, amended: building a Relationship from a tuple, or adding one to it,
\* never raises; a field that is None is joined and hashed as the empty
\* string, and a field that is another object as its str(), as a string is.
C11_NoneToEmpty ==
    CalledWithFields =>
        /\ rel_obj.kind = "object"
        /\ TreatedAs([i \in 1..Len(rel_call.relationship_tuple) |->
                         IF rel_call.relationship_tuple[i].t = "none"
                         THEN <<>> ELSE rel_call.relationship_tuple[i].s])

\* a Relationship was built from [None, 'r', 'A'] and [None, 5] was added
C11_Witness ==
    /\ rel_call = [op |-> "add", relationship_tuple |-> <<PyNone, PyInt(<<"5">>)>>]
    /\ rel_obj.kind = "object"
    /\ rel_obj.it.relationship_tuple = << <<>>, <<"r">>, <<"A">> >>
    /\ rel_obj.it.raw_context = <<" ", "r", " ", "A", "\t", " ", "5">>

\* the lines of the error cache file, 0 with no file
CachedLines == IF LLM_error_cache.exists THEN Len(LLM_error_cache.content) ELSE 0

\* C14: main() and rerun() return normally only with the error cache absent
\* or without a line, and a run that comes to its check of the cache with
\* n >= 1 lines in it raises an error that reports n.
C14_FatalOnCachedErrors ==
    stage = "rest" =>
        /\ text_result.kind = "returned" => CachedLines = 0
        /\ (text_result.kind \in {"returned", "raised"} /\ CachedLines >= 1)
               => text_result = TextResult("raised", CachedLines)

\* a run ended with 2 lines in the error cache and raised the error reporting 2
C14_Witness ==
    /\ stage = "rest"
    /\ CachedLines = 2
    /\ text_result = TextResult("raised", 2)

\* the client call that replays a cached entry: its input with the
\* decomposition response format, and its meta_data
Replay(entry) ==
    [input |-> [entry.input EXCEPT !.response_format = TRUE],
     meta_data |-> entry.meta_data]

\* C15: rerun() dispatches every entry it read from the error cache through
\* the client exactly once, in the entry's input (with the response format)
\* and the entry's metadata: the calls made are the entries read, one each.
C15_ReplayedOnce ==
    rerun_dispatched = [i \in 1..Len(rerun_store) |-> Replay(rerun_store[i])]

\* C16: during rerun() the error cache is emptied only after the entries
\* read were dispatched, so an entry that was read and not dispatched is
\* still in the file; and the emptied file still exists.
C16_ClearedAfterDispatch ==
    /\ \A i \in 1..Len(rerun_store) :
           i > Len(rerun_dispatched) =>
               /\ LLM_error_cache.exists
               /\ \E k \in 1..Len(LLM_error_cache.content) :
                      LLM_error_cache.content[k] = rerun_store[i]
    /\ text_result.kind = "TypeError" => LLM_error_cache.exists

\* C17: every attempt ends in one terminal state, its result appended to the
\* processing log or its input and metadata appended to the error cache,
\* never both; only successful results are in the log, on the rerun path
\* (request_save) too: from empty files, the two files hold one line per
\* attempt and no line of the log holds the marker of a cached failure.
C17_OneTerminalState ==
    /\ Len(text_decomposition_file) + CachedLines = save_calls
    /\ \A i \in 1..Len(text_decomposition_file) :
           text_decomposition_file[i].response.text # ErrorCached

\* a run has started and none of its client calls has returned: the log is
\* the one the run found, and the calls in flight are the ones it dispatched
JustStarted == stage \in {"main", "rerun"} /\ in_flight = texts

\* the text units that have a record among the lines of the log
RecordedUnits ==
    {u \in TextUnits :
        \E i \in 1..Len(text_decomposition_file) :
            /\ text_decomposition_file[i].response.tag
                   \notin {"blank", "not_json", "not_object"}
            /\ text_decomposition_file[i].text_hash_id = u}

InFlightAsync == {c \in AsyncCallers : cpc[c] = "inflight"}

\* the async callers inside `async with self.semaphore`
Holders == {c \in AsyncCallers : cpc[c] \in {"sleep", "inflight"}}

\* C19: the backend calls of one client that are in flight at the same time
\* never exceed the configured maximum, and the maximum is what the
\* configuration says: while fewer than the configured maximum of calls are
\* inside the semaphore a further call can enter (N calls can be in flight
\* together), and with a maximum of 1 the calls are serialized.
C19_ConfiguredMaximum ==
    /\ Cardinality(InFlightAsync) <= config_max_concurrent
    /\ \A c \in AsyncCallers :
           (cpc[c] = "idle" /\ Cardinality(Holders) < config_max_concurrent)
               => ENABLED AsyncEnter(c)

\* the semaphore is held by a caller inside the `async with` block, and by
\* nobody else: a caller that has returned or raised has released it
ReleasedOnExit ==
    semaphore # Nobody => cpc[semaphore] \in {"sleep", "inflight"}

\* C20: provided every backend call terminates, every async call through the
\* client is eventually dispatched and ends, with a response or an error;
\* the semaphore is released on every exit path, a backend call that raises
\* included, so no waiting caller is blocked forever.
C20_EveryCallEnds ==
    /\ []ReleasedOnExit
    /\ \A c \in AsyncCallers : <>(cpc[c] \in {"done", "raised"})

\* the backend call of a1 raised, the semaphore is free again, and a2 was
\* dispatched and got its response
C20_Witness ==
    /\ cpc["a1"] = "raised"
    /\ cpc["a2"] = "done"
    /\ semaphore = Nobody
    /\ Len(dispatches) >= 2

\* ------------------------------------------------------------------------
\* Claims on the ranking and the expansion
\* ------------------------------------------------------------------------

\* the last expansion went through its walk
Expanded == search_phase = "expanded" /\ ~post_process.returned_early

\* the bucket of a ranked node, by the type the store holds for it
BucketOf(id) ==
    LET type == IF \E n \in neo4j_nodes : n.id = id
                THEN (CHOOSE n \in neo4j_nodes : n.id = id).type
                ELSE NoneValue
    IN  IF type \in {"entity", "relationship", "high_level_element_title"}
        THEN type ELSE "other"

CapOf(bucket) ==
    CASE bucket = "entity" -> search_config.Enode
      [] bucket = "relationship" -> search_config.Rnode
      [] bucket = "high_level_element_title" -> search_config.Hnode
      [] OTHER -> search_config.cross_node

Buckets == {"entity", "relationship", "high_level_element_title", "other"}

\* ranked position i holds a node the result list did not hold before
Candidate(i) == ~InList(post_process.before, weighted_nodes[i])

\* the candidates of a bucket among the first k ranked nodes, in ranked order
RECURSIVE CandidatesOf(_, _)
CandidatesOf(bucket, k) ==
    IF k = 0 THEN <<>>
    ELSE IF Candidate(k) /\ BucketOf(weighted_nodes[k]) = bucket
         THEN Append(CandidatesOf(bucket, k - 1), weighted_nodes[k])
         ELSE CandidatesOf(bucket, k - 1)

FirstOf(list, n) == SubSeq(list, 1, IF n < Len(list) THEN n ELSE Len(list))

\* what the walk accepted into a bucket
AcceptedIn(bucket) ==
    CASE bucket = "entity" -> post_process.walk.entity_list
      [] bucket = "relationship" -> post_process.walk.relationship_list
      [] bucket = "high_level_element_title" -> post_process.walk.high_level_element_title_list
      [] OTHER -> SubSeq(post_process.walk.search_list, Len(post_process.before) + 1,
                         Len(post_process.before) + post_process.walk.addition_node)

\* all four caps are met by the candidates among the first k ranked nodes
MetAfter(k) ==
    \A bucket \in Buckets : Len(CandidatesOf(bucket, k)) >= CapOf(bucket)

\* every bucket holds the first candidates of its type, in ranked order, up
\* to its cap
FilledInRankedOrder ==
    \A bucket \in Buckets :
        AcceptedIn(bucket)
            = FirstOf(CandidatesOf(bucket, Len(weighted_nodes)), CapOf(bucket))

\* C21 as stated: in the type-aware expansion at most Enode entities, Rnode
\* relationships, Hnode high-level-element titles and cross_node nodes of any
\* other type are accepted, each bucket filled in ranked order, and the walk
\* stops at the first ranked node after which all four caps are met, or at
\* the end of the list.
C21_CapsAndStop ==
    Expanded =>
        /\ FilledInRankedOrder
        /\ post_process.walk.walked
               = IF \E k \in 1..Len(weighted_nodes) : MetAfter(k)
                 THEN CHOOSE k \in 1..Len(weighted_nodes) :
                          MetAfter(k) /\ \A m \in 1..(k - 1) : ~MetAfter(m)
                 ELSE Len(weighted_nodes)

\* C21, amended: the same caps and the same filling in ranked order; the
\* walk stops at the first ranked node that the result list did not hold
\* already and after which all four caps are met (a ranked node the list
\* holds is passed over without the caps being looked at), or at the end of
\* the list.
C21_CapsAndStopAtCandidate ==
    Expanded =>
        /\ FilledInRankedOrder
        /\ post_process.walk.walked
               = IF \E k \in 1..Len(weighted_nodes) : Candidate(k) /\ MetAfter(k)
                 THEN CHOOSE k \in 1..Len(weighted_nodes) :
                          /\ Candidate(k) /\ MetAfter(k)
                          /\ \A m \in 1..(k - 1) : ~(Candidate(m) /\ MetAfter(m))
                 ELSE Len(weighted_nodes)

\* with a cap of 1 entity and 0 else, the walk passed over node 4, which the
\* result list held, took the entity 2 and stopped there, two nodes before
\* the end of the ranked list
C21_Witness ==
    /\ Expanded
    /\ search_config = [Enode |-> 1, Rnode |-> 0, Hnode |-> 0, cross_node |-> 0]
    /\ weighted_nodes = <<4, 2, 1, 3>>
    /\ post_process.before = <<1, 3, 4>>
    /\ post_process.walk.entity_list = <<2>>
    /\ post_process.walk.walked = 2

\* the attribute nodes and related nodes the last expansion appended, after
\* the nodes its walk appended
PulledNodes ==
    {retrieval.search_list[i] :
        i \in (Len(post_process.walk.search_list) + 1)..Len(retrieval.search_list)}

DefaultTypes == {"attribute", "high_level_element"}

\* the store holds a node n with a type
StoredType(n) == \E m \in neo4j_nodes : m.id = n /\ m.type # NoneValue

\* C22: every attribute node and every related node the expansion appends to
\* the result list has an entry in the id-to-type map when the expansion
\* returns: the type the store holds for it, or a default type when the store
\* has no such node or no type for it.
C22_PulledNodesTyped ==
    Expanded =>
        \A n \in PulledNodes :
            /\ n \in DOMAIN id_to_type
            /\ IF StoredType(n)
               THEN id_to_type[n] = (CHOOSE m \in neo4j_nodes : m.id = n).type
               ELSE id_to_type[n] \in DefaultTypes

\* C23: for a fixed graph, a fixed seed set and fixed caps, two runs of
\* ranking plus expansion return the same result node list and the same
\* relationship list, element for element and in the same order.
C23_SameAnswerTwice ==
    Len(answers) = 2 =>
        /\ answers[1].search_list = answers[2].search_list
        /\ answers[1].relationship_list = answers[2].relationship_list

\* the node of the store that has the hash id `id`
NodeOf(id) == (CHOOSE n \in neo4j_nodes : n.id = id).eid

\* the score of the node a is at least the score of the node b
NotBelow(a, b) == ScoreAtLeast(neo4j_nodes, neo4j_edges, seed_list, NodeOf(a), NodeOf(b))

\* C24: in the ranked list the graph search returns, the nodes are in
\* descending order of score, and two nodes of equal score are in ascending
\* order of hash id.
C24_TiesByHashId ==
    search_phase \in {"ranked", "expanded"} =>
        \A i, j \in 1..Len(weighted_nodes) :
            i < j =>
                /\ NotBelow(weighted_nodes[i], weighted_nodes[j])
                /\ NotBelow(weighted_nodes[j], weighted_nodes[i])
                       => weighted_nodes[i] < weighted_nodes[j]

NoDuplicate(list) == \A i, j \in 1..Len(list) : list[i] = list[j] => i = j

\* C25: the expansion only appends to the result node list: the nodes the
\* list held keep their positions, every appended node was absent from the
\* list before, and the list has no duplicate afterwards (it had none before
\* and the unique set mirrored it).
C25_AppendOnly ==
    search_phase = "expanded" =>
        /\ Len(retrieval.search_list) >= Len(post_process.before)
        /\ SubSeq(retrieval.search_list, 1, Len(post_process.before)) = post_process.before
        /\ \A i \in (Len(post_process.before) + 1)..Len(retrieval.search_list) :
               ~InList(post_process.before, retrieval.search_list[i])
        /\ NoDuplicate(retrieval.search_list)
        /\ retrieval.unique_search_list
               = {retrieval.search_list[i] : i \in 1..Len(retrieval.search_list)}

\* the entity 2 brought its attributes 5 and 6, and the title 3, whose related
\* node is 5 as well, brought nothing more
C25_Witness ==
    /\ search_phase = "expanded"
    /\ post_process.walk.entity_list = <<2>>
    /\ post_process.walk.high_level_element_title_list = <<3>>
    /\ post_process.before = <<1>>
    /\ retrieval.search_list = <<1, 5, 6>>

\* ------------------------------------------------------------------------
\* Claims on the graph stage: relationship nodes and unresolved records
\* ------------------------------------------------------------------------

\* the nodes an edge of G joins to the node h
NeighboursOf(h) == {v \in DOMAIN G.nodes : v # h /\ has_edge(G, h, v)}

\* the Relationship objects of the run whose node is h
ObjectsOf(h) == {i \in 1..Len(relationship) : relationship[i].hash_id = h}

\* C26: after processing any sequence of text units, every node of type
\* relationship is adjacent to exactly two nodes, both of type entity, its
\* source and its target endpoint, and to no other node; also for triples
\* repaired by padding and for triples whose source and target text are the
\* same.
C26_TwoEntityEndpoints ==
    (phase \in {"building", "saved"} /\ AllTasksDone) =>
        \A h \in DOMAIN G.nodes :
            G.nodes[h].type = "relationship" =>
                /\ Cardinality(NeighboursOf(h)) = 2
                /\ \A v \in NeighboursOf(h) : G.nodes[v].type = "entity"
                /\ \A i \in ObjectsOf(h) :
                       NeighboursOf(h)
                           = {relationship[i].source.hash_id, relationship[i].target.hash_id}

\* the records of a log whose response is not a structured object
Unresolved(log) == SelectSeq(log, LAMBDA d : d.response.tag # "dict")

IsPrefix(s, t) == Len(s) <= Len(t) /\ s = SubSeq(t, 1, Len(s))

\* graph_tasks has returned for the record i of this run
TaskReturns(i) ==
    /\ run' = run
    /\ i \in 1..Len(tasks)
    /\ tasks[i].pc = "ready"
    /\ tasks'[i].pc = "done"

\* C27: a record whose response is not a structured object causes no graph
\* mutation in the construction stage (its graph_tasks leaves the graph and
\* the objects of the run as they are), keeps processed = false, and is
\* written back to the processing log unchanged, in every run: a write of
\* the log by a main() that runs to its end keeps the unresolved records it
\* held, in their order.
C27_UnresolvedUntouched ==
    [][ /\ \A i \in 1..Len(tasks) :
               (TaskReturns(i) /\ data[i].response.tag # "dict") =>
                   /\ UNCHANGED objVars
                   /\ data' = data
        /\ \A i \in 1..Len(data') :
               data'[i].response.tag # "dict" => ~data'[i].processed
        /\ \A i \in 1..Len(text_decomposition_file') :
               text_decomposition_file'[i].response.tag # "dict"
                   => ~text_decomposition_file'[i].processed
        /\ phase' # "aborted" =>
               IsPrefix(Unresolved(text_decomposition_file),
                        Unresolved(text_decomposition_file'))
        /\ phase' = "saved" =>
               Unresolved(text_decomposition_file') = Unresolved(data')
      ]_vars

\* the second run has written the log, which holds a processed record and
\* a record with the cached-error marker, and the graph is not empty
C27_Witness ==
    /\ phase = "saved"
    /\ run = 2
    /\ DOMAIN G.nodes # {}
    /\ Len(processed_data) = 2
    /\ text_decomposition_file[2].response.tag # "dict"
    /\ text_decomposition_file[1].response.tag = "dict"

\* ------------------------------------------------------------------------
\* Claims on the Neo4j store
\* ------------------------------------------------------------------------

\* the nodes tagged with the user v, and the relationships between them
NodesOf(v) == {n \in neo4j_nodes : n.user_id = v}
EdgesOf(v) ==
    {e \in neo4j_edges : /\ NodeAt(neo4j_nodes, e.source).user_id = v
                         /\ NodeAt(neo4j_nodes, e.target).user_id = v}

StoreReads == {"load_graph", "get_neighbors", "get_statistics"}

\* what the read answers on a store that holds the data of u alone
ReadAlone(op, u, node_id) ==
    CASE op = "load_graph" -> storage_load_graph(NodesOf(u), EdgesOf(u), u)
      [] op = "get_neighbors" -> get_neighbors(NodesOf(u), EdgesOf(u), node_id, u)
      [] op = "get_statistics" -> get_statistics(NodesOf(u), EdgesOf(u), u)

\* C28: data tagged with one user_id is never read, modified or deleted by
\* a storage operation performed on behalf of a different user: a call made
\* for the user u (a save, load, clear, neighbour or statistics call, or the
\* persisting of the build or the sync of u) leaves the nodes tagged with any
\* other user, and the relationships between them, as they were, and a read
\* for u answers what it would answer if the store held the data of u alone.
C28_UserIsolation ==
    [][ store_calls' # store_calls =>
            /\ \A v \in StoreUsers \ {store_op'.user_id} :
                   /\ {n \in neo4j_nodes' : n.user_id = v} = NodesOf(v)
                   /\ {e \in neo4j_edges' :
                          /\ NodeAt(neo4j_nodes', e.source).user_id = v
                          /\ NodeAt(neo4j_nodes', e.target).user_id = v} = EdgesOf(v)
            /\ store_op'.op \in StoreReads =>
                   \E node_id \in StoreIds :
                       store_op'.result = ReadAlone(store_op'.op, store_op'.user_id, node_id)
      ]_vars

\* the same of the calls of Neo4jStorage that are given the user_id
C28_IsolationOfTaggedCalls ==
    [][ (store_calls' # store_calls
            /\ store_op'.op \in StoreReads \cup {"save_graph", "clear_database"}) =>
            /\ \A v \in StoreUsers \ {store_op'.user_id} :
                   /\ {n \in neo4j_nodes' : n.user_id = v} = NodesOf(v)
                   /\ {e \in neo4j_edges' :
                          /\ NodeAt(neo4j_nodes', e.source).user_id = v
                          /\ NodeAt(neo4j_nodes', e.target).user_id = v} = EdgesOf(v)
            /\ store_op'.op \in StoreReads =>
                   \E node_id \in StoreIds :
                       store_op'.result = ReadAlone(store_op'.op, store_op'.user_id, node_id)
      ]_vars

\* the store nodes with the hash id `id`, and the relationships from a node
\* with the id `source` to a node with the id `target`
StoredNodes(id) == {n \in neo4j_nodes : n.id = id}
StoredEdges(source, target) ==
    {e \in neo4j_edges : /\ NodeAt(neo4j_nodes, e.source).id = source
                         /\ NodeAt(neo4j_nodes, e.target).id = target}

\* C29: an incremental sync (full_sync = False) adds the nodes the store
\* lacks and updates the ones it has, without clearing: after the same graph
\* has been synced again, the store holds exactly one node for each node id
\* of the graph and one relationship for each edge of the graph.
C29_IncrementalSyncIdempotent ==
    (store_op.op = "sync_to_neo4j" /\ ~store_op.full_sync /\ store_op.again) =>
        /\ \A id \in DOMAIN store_op.graph.nodes : Cardinality(StoredNodes(id)) = 1
        /\ \A e \in store_op.graph.edges : Cardinality(StoredEdges(e[1], e[2])) = 1

\* ------------------------------------------------------------------------
\* Claims on the client: the last-call time
\* ------------------------------------------------------------------------

\* C30: on every call path the shared last-call time is set immediately
\* before the backend dispatch and so records every dispatch, including one
\* whose backend call raises: at a dispatch the last-call time is the time
\* of that dispatch, it is never earlier than a dispatch made, and a
\* dispatch that follows the dispatch of a failed call is at least the delay
\* later than it.
C30_EveryDispatchRecorded ==
    [][ /\ Len(dispatches') > Len(dispatches) =>
               /\ last_request_time' = now
               /\ (last_dispatcher # Nobody /\ cpc[last_dispatcher] = "raised")
                      => now - dispatches[Len(dispatches)] >= Delay
        /\ \A i \in 1..Len(dispatches') : last_request_time' >= dispatches'[i]
      ]_vars

\* the same of the dispatches of __call__ that follow no call of request
C30_AsyncDispatchRecorded ==
    [][ (\A c \in SyncCallers : cpc'[c] = "idle") =>
            /\ Len(dispatches') > Len(dispatches) =>
                   /\ last_request_time' = now
                   /\ (last_dispatcher # Nobody /\ cpc[last_dispatcher] = "raised")
                          => now - dispatches[Len(dispatches)] >= Delay
            /\ \A i \in 1..Len(dispatches') : last_request_time' >= dispatches'[i]
      ]_vars

\* ------------------------------------------------------------------------
\* Claims on the decorated call: the error cache
\* ------------------------------------------------------------------------

\* the call just made got a text response that the rule classifies as a
\* failure, with cache_path and metadata given
FailureToCache(call) ==
    /\ call.response.tag = "str"
    /\ is_error(call.response.text)
    /\ call.cache_path = "given"
    /\ call.meta_data.given

\* C31: a call appends exactly one {input, meta_data} line, with the
\* response_format field removed from the input, to the error cache and
\* returns the cached marker when its text response is classified as a
\* failure and both cache_path and metadata are given; every other outcome
\* (structured response, non-failure text, raised failure) leaves the error
\* cache unchanged.
C31_OneLinePerCachedFailure ==
    [][ errCalls' # errCalls =>
            IF FailureToCache(errCall')
            THEN /\ errCache' = Append(errCache,
                                       [input |-> [query |-> errCall'.input.query,
                                                   response_format |-> FALSE],
                                        meta_data |-> errCall'.meta_data])
                 /\ errOut'.kind = "return"
                 /\ errOut'.value = [tag |-> "str", text |-> ErrorCached]
            ELSE errCache' = errCache
      ]_vars

\* a second failure has been cached after the first, on the sync path, for
\* an input that had a response_format
C31_Witness ==
    /\ Len(errCache) = 2
    /\ errCall.path = "sync"
    /\ errCall.input.response_format
    /\ errCall.response.text = RateLimitLong
    /\ errOut.cached

\* ------------------------------------------------------------------------
\* Claims on the graph stage: belongings, abort, monotony, persistence
\* ------------------------------------------------------------------------

\* the hash ids an output item names, one for each occurrence: its entity
\* list, then the source and the target of each well-formed relationship
NamedBy(output, tid) ==
    entities_hash_id(output.entities, tid)
    \o [k \in 1..Len(output.relationships) |->
           IF Len(split_relationship(output.relationships[k])) = 3
           THEN Entity(split_relationship(output.relationships[k])[1], tid).hash_id
           ELSE <<>>]
    \o [k \in 1..Len(output.relationships) |->
           IF Len(split_relationship(output.relationships[k])) = 3
           THEN Entity(split_relationship(output.relationships[k])[3], tid).hash_id
           ELSE <<>>]

\* C32: after an output item is processed, its semantic-unit node has a
\* belongs-to edge to every entity of its entity list and to every endpoint
\* entity of every relationship extracted for it, also to an endpoint whose
\* node already existed, of a weight of 1 or more (created with 1,
\* incremented by 1).
C32_BelongsToEveryEndpoint ==
    (phase = "building" /\ AllTasksDone) =>
        \A i \in 1..Len(data) :
            data[i].response.tag = "dict" =>
                \A k \in 1..Len(data[i].response.Output) :
                    LET output == data[i].response.Output[k]
                        tid == data[i].text_hash_id
                        su == Semantic_unit(output.semantic_unit, tid).hash_id
                        named == NamedBy(output, tid)
                    IN  \A n \in 1..Len(named) :
                            named[n] # <<>> =>
                                /\ has_edge(G, su, named[n])
                                /\ G.edges[{su, named[n]}] >= 1

\* the three count checks of save(): the lists of the run against the nodes
\* of the graph, type by type
ThreeCountsEqual ==
    /\ Len(semantic_units) = Cardinality({n \in DOMAIN G.nodes : G.nodes[n].type = "semantic_unit"})
    /\ Len(entities) + Len(relationship_nodes)
           = Cardinality({n \in DOMAIN G.nodes : G.nodes[n].type = "entity"})
    /\ Len(relationship) = Cardinality({n \in DOMAIN G.nodes : G.nodes[n].type = "relationship"})

SomeTaskRaised == \E i \in 1..Len(tasks) : tasks[i].pc = "raised"

\* C33: if any of the three count checks fails, or any graph task raises,
\* the construction stage raises before anything is written: within a run,
\* the record stores, the graph file and the processing log change only in
\* a step that ends a run (to its end, or part-way through its writes) in
\* which no task raised and the three counts are equal; a run that ended
\* otherwise writes nothing afterwards.
C33_NothingWrittenOnFailure ==
    [][ run' = run =>
            /\ fileVars' # fileVars =>
                   /\ phase = "building" /\ phase' \in {"saved", "aborted"}
                   /\ ~SomeTaskRaised
                   /\ ThreeCountsEqual
            /\ (phase = "building" /\ phase' # "building"
                    /\ (SomeTaskRaised \/ ~ThreeCountsEqual)) =>
                   /\ phase' \in {"assert_failed", "task_raised"}
                   /\ fileVars' = fileVars
            /\ phase \in {"assert_failed", "task_raised", "crashed"} =>
                   fileVars' = fileVars /\ phase' = phase
      ]_vars

\* a second run has ended on a failed count check with the files of the
\* first run in place
C33_Witness ==
    /\ run = 2
    /\ phase = "assert_failed"
    /\ graph_file.exists
    /\ ~ThreeCountsEqual

\* a run has ended on the exception of a task after another task changed the
\* graph
C33_WitnessRaised ==
    /\ phase = "task_raised"
    /\ DOMAIN G.nodes # {}
    /\ ~graph_file.exists

\* C34: during a build no node and no edge is ever removed, the type of a
\* node never changes once set, and every node weight and edge weight is an
\* integer of 1 or more that never decreases, in every step of a
\* construction run.
C34_GraphOnlyGrows ==
    [][ run' = run =>
            /\ \A n \in DOMAIN G.nodes :
                   /\ n \in DOMAIN G'.nodes
                   /\ G'.nodes[n].type = G.nodes[n].type
                   /\ G'.nodes[n].weight >= G.nodes[n].weight
            /\ \A e \in DOMAIN G.edges :
                   /\ e \in DOMAIN G'.edges
                   /\ G'.edges[e] >= G.edges[e]
            /\ \A n \in DOMAIN G'.nodes : G'.nodes[n].weight \in Nat \ {0}
            /\ \A e \in DOMAIN G'.edges : G'.edges[e] \in Nat \ {0}
      ]_vars

\* in the second run, on the graph the first run persisted, a node has been
\* met again and an edge incremented
C34_Witness ==
    /\ run = 2
    /\ phase = "building"
    /\ graph_file.exists
    /\ \E n \in DOMAIN G.nodes :
           /\ n \in DOMAIN graph_file.content.nodes
           /\ G.nodes[n].weight > graph_file.content.nodes[n].weight
    /\ \E e \in DOMAIN G.edges :
           /\ e \in DOMAIN graph_file.content.edges
           /\ G.edges[e] > graph_file.content.edges[e]

\* ------------------------------------------------------------------------
\* Claims on the two call paths, the rerun and the stores
\* ------------------------------------------------------------------------

\* C35: for the same backend response, cache_path and metadata, the sync
\* request has the outcome of the async call: the same returned value or
\* raised error, and the same change to the error cache.
C35_SyncAsAsync ==
    errCall.path = "sync"
    => LET out == cache_error_async(errCall.response, errCall.cache_path,
                                    MetaArg(errCall.meta_data))
       IN  /\ errOut.kind = out.kind
           /\ errOut.value = out.value
           /\ errOut.cached = out.cached

\* C36: a failure that was cached and is replayed by rerun() is, when the
\* rerun has ended, either cached again with the same input and the same
\* metadata as the original entry (it failed again) or logged with the
\* top-level text_hash_id a first-run success has (it succeeded).
C36_RerunRoundTrip ==
    (stage = "rest" /\ text_result.kind # "running")
    => \A i \in 1..Len(rerun_store) :
           \/ /\ LLM_error_cache.exists
              /\ \E j \in 1..Len(LLM_error_cache.content) :
                     /\ LLM_error_cache.content[j].input = rerun_store[i].input
                     /\ LLM_error_cache.content[j].meta_data = rerun_store[i].meta_data
           \/ \E j \in 1..Len(text_decomposition_file) :
                  /\ is_record(text_decomposition_file[j])
                  /\ text_decomposition_file[j].text_hash_id = rerun_store[i].meta_data.id

Persisted(n) ==
    /\ semantic_units_file.exists
    /\ entities_file.exists
    /\ relationship_file.exists
    /\ graph_file.exists
    /\ n \in DOMAIN graph_file.content.nodes

C39_SaveLoadRoundTrip ==
    trip = "loaded" =>
        /\ DOMAIN loaded_graph.nodes = DOMAIN nx_graph.nodes
        /\ DOMAIN loaded_graph.edges = DOMAIN nx_graph.edges
        /\ \A id \in DOMAIN nx_graph.nodes :
               /\ DOMAIN loaded_graph.nodes[id] = DOMAIN nx_graph.nodes[id]
               /\ \A k \in DOMAIN nx_graph.nodes[id] :
                      loaded_graph.nodes[id][k] = nx_graph.nodes[id][k]
        /\ \A e \in DOMAIN nx_graph.edges :
               /\ DOMAIN loaded_graph.edges[e] = DOMAIN nx_graph.edges[e]
               /\ \A k \in DOMAIN nx_graph.edges[e] :
                      loaded_graph.edges[e][k] = nx_graph.edges[e][k]

====
